---- MODULE Spec2Model ----
(***************************************************************************)
(* Model of the Huawei mesh router client (client/coreapi.py): the         *)
(* authenticated request protocol of one HuaweiCoreApi connection used by  *)
(* several asyncio tasks.  An action is one atomic block of a coroutine:   *)
(* everything a task does from the moment it is resumed (a lock is handed  *)
(* to it, an HTTP response arrives) up to its next suspension (a request   *)
(* in flight, a wait for a lock) or the end of its call.                   *)
(***************************************************************************)
EXTENDS Integers, Sequences, FiniteSets, TLC

\* ------------------------------------------------------------------ bounds
\* CSRF tokens the router hands out.
MaxToken == 2
\* Calls the observed caller makes one after the other (specification SpecCall).
MaxCalls == 2
\* Calls each of the concurrent tasks makes (specification Spec).
CallsEach == 1
\* Keys of the items a changes watcher is shown, and the largest number of items
\* of one source collection (specification SpecWatcher).
MaxKey == 2
MaxItems == 2
\* The features HuaweiFeaturesDetector.update probes one after the other, and the
\* is_feature_available calls of one task (specification SpecFeatures).
MaxFeature == 2
MaxAsk == 2
\* The largest PBKDF2 iteration count get_client_proof is given (specification
\* SpecProof).
MaxIterations == 2
\* The poll cycles of one coordinator (specification SpecCycle).
MaxCycles == 2
\* The devices that may stand in the access lists of a band (specification
\* SpecAccess).
MaxMac == 2
\* The URL filters of the router (specification SpecSwitches).
MaxFilter == 1

\* The config entries of the integration.
MaxEntry == 3

\* The asyncio tasks that share the connection.
Tasks == {1, 2}
\* The task whose calls are observed in SpecCall.
Caller == CHOOSE t \in Tasks : TRUE
Tokens == 1 .. MaxToken

\* ------------------------------------------------------- program constants
APICALL_ERRCODE_UNAUTHORIZED == -2
APICALL_ERRCODE_REQUEST == -3
APICALL_ERRCAT_CREDENTIALS == "user_pass_err"
APICALL_ERRCAT_CSRF == "csrf_error"
APICALL_ERRCAT_REQUEST == "request_error"
APICALL_ERRCAT_TOO_MANY_USERS == "Too_Many_user"
APICALL_ERRCAT_UNAUTHORIZED == "unauthorized"
AUTH_FAILURE_GENERAL == "auth_general"
AUTH_FAILURE_CREDENTIALS == "auth_invalid_credentials"
AUTH_FAILURE_CSRF == "auth_invalid_csrf"
AUTH_FAILURE_TOO_MANY_USERS == "auth_too_many_users"

\* Python's None where a dict is expected (a body, the active CSRF pair).
None == [py_none |-> TRUE]
\* A request that has no CSRF field at all (a GET).
NoCsrfField == [no_csrf_field |-> TRUE]
\* A response text that json.loads rejects.
InvalidJson == [invalid_json |-> TRUE]

VARIABLES
    session,        \* self._session: "none" (None or closed) or "open"
    cookies,        \* the session cookie jar holds the router's session cookie
    active_csrf,    \* self._active_csrf: None or [csrf_param, csrf_token]
    is_initialized, \* self._is_initialized
    call_locker,    \* self._call_locker: [owner, waiters]
    auth_locker,    \* self._auth_locker: [owner, waiters]
    task,           \* per task: the coroutine's position and locals
    budget,         \* per task: the calls it may still start
    observed,       \* the tasks whose responses are recorded in the history
    last_seen,      \* history: the CSRF pair of the latest response that held one
    login_done,     \* history: some login handshake has completed successfully
    init_logins,    \* history: number of successful logins run by _ensure_initialized
    body_data,      \* _handle_error_dict on its own: the body it is given
    body_ex,        \* what it raised for the body
    body_retry,     \* whether retry_on_csrf_error retries on what it raised
    source,         \* HuaweiChangesWatcher: what _get_actual_items() yields
    known_items,    \* HuaweiChangesWatcher._known_items
    added,          \* the added list of the latest _get_difference
    removed,        \* the removed list of the latest _get_difference
    calls,          \* the callbacks the latest look_for_changes has invoked
    looked,         \* history: look_for_changes has run on the source as it is
                    \* ("no", "once", "again")
    last_edge,      \* history: per key, the latest edge reported for it ("none",
                    \* "added", "removed")
    is_features_updated,  \* HuaweiApi._is_features_updated
    available_features,   \* HuaweiFeaturesDetector._available_features
    ftask,          \* per task: its is_feature_available call
    fbudget,        \* per task: the is_feature_available calls it may still start
    probe_count,    \* history: per feature, the probe requests issued so far
    proof_in,       \* get_client_proof: its five arguments
    proof_in2,      \* the arguments of a second call, one of them changed
    proof_out,      \* what it returned for proof_in, and for proof_in once more
    proof_out2,     \* what it returned for proof_in2
    cycle_pc,       \* async_update: "idle", "running", "done" or "raised"
    steps_run,      \* the update steps of the cycle that have run, in order
    some_raised,    \* history: a step of the cycle has raised
    is_initial_update,  \* HuaweiDataUpdateCoordinator._is_initial_update
    apis,           \* the keys of self._apis besides the primary router's
    disconnecting,  \* the routers whose disconnect task is scheduled, not finished
    cycles_left,    \* the poll cycles still to come
    acl_in,         \* _process_access_lists: the lists read and the request
    acl_out,        \* what it returned: (need_action, whitelist, blacklist)
    switch_states,  \* self._switch_states: the state of a switch by its key
    url_filters,    \* self._url_filters: the enabled flag of a filter by its id
    supported,      \* the switches the primary router supports
    url_filter_switches,  \* the option url_filter_switches
    url_filter_feature,   \* Feature.URL_FILTER is available
    last_call,      \* the latest call on the switches and how it ended
    connected_devices,  \* self._connected_devices: is_active by mac
    dev_before,     \* history: connected_devices before the latest poll cycle
    dev_report,     \* history: devices_data of the latest poll cycle
    dev_events,     \* history: the device events fired in the latest poll cycle
    dev_cycle,      \* history: the latest poll cycle: first or not, done or failed
    coordinators,   \* the entries with a coordinator in hass.data[DOMAIN]
    loaded_entries, \* the config entries that are set up and not unloaded
    services_count, \* hass.data[DOMAIN][DATA_KEY_SERVICES]: <<n>>, or <<>> when absent
    services_registered,  \* the services of the integration are registered
    entry_call      \* history: the latest setup or unload and how it ended

\* The variables of the connection and its callers.
apiVars == <<session, cookies, active_csrf, is_initialized, call_locker,
             auth_locker, task, budget, observed, last_seen, login_done,
             init_logins>>

\* The variables of _handle_error_dict taken on its own (specification SpecBody).
bodyVars == <<body_data, body_ex, body_retry>>

\* The variables of a changes watcher (specification SpecWatcher).
watcherVars == <<source, known_items, added, removed, calls, looked, last_edge>>

\* The variables of feature detection (specification SpecFeatures).
featureVars == <<is_features_updated, available_features, ftask, fbudget,
                 probe_count>>

\* The variables of get_client_proof taken on its own (specification SpecProof).
proofVars == <<proof_in, proof_in2, proof_out, proof_out2>>

\* The variables of the coordinator's poll cycle (specification SpecCycle).
cycleVars == <<cycle_pc, steps_run, some_raised, is_initial_update, apis,
               disconnecting, cycles_left>>

\* The variables of _process_access_lists on its own (specification SpecAccess).
accessVars == <<acl_in, acl_out>>

\* The variables of the coordinator's switches (specification SpecSwitches).
switchVars == <<switch_states, url_filters, supported, url_filter_switches,
                url_filter_feature, last_call>>

\* The variables of the device events (specification SpecDevices).
deviceVars == <<connected_devices, dev_before, dev_report, dev_events,
                dev_cycle>>

\* The variables of the config entries and services (specification SpecServices).
serviceVars == <<coordinators, loaded_entries, services_count,
                 services_registered, entry_call>>

vars == <<apiVars, bodyVars, watcherVars, featureVars, proofVars, cycleVars,
          accessVars, switchVars, deviceVars, serviceVars>>

\* What the actions of one component leave alone.
notApi == <<bodyVars, watcherVars, featureVars, proofVars, cycleVars,
            accessVars, switchVars, deviceVars, serviceVars>>
notBody == <<apiVars, watcherVars, featureVars, proofVars, cycleVars,
             accessVars, switchVars, deviceVars, serviceVars>>
notWatcher == <<apiVars, bodyVars, featureVars, proofVars, cycleVars,
                accessVars, switchVars, deviceVars, serviceVars>>
notFeatures == <<apiVars, bodyVars, watcherVars, proofVars, cycleVars,
                 accessVars, switchVars, deviceVars, serviceVars>>
notProof == <<apiVars, bodyVars, watcherVars, featureVars, cycleVars,
              accessVars, switchVars, deviceVars, serviceVars>>
notCycle == <<apiVars, bodyVars, featureVars, proofVars, accessVars,
              switchVars, deviceVars, serviceVars>>
notAccess == <<apiVars, bodyVars, watcherVars, featureVars, proofVars,
               cycleVars, switchVars, deviceVars, serviceVars>>
notSwitches == <<apiVars, bodyVars, watcherVars, featureVars, proofVars,
                 cycleVars, accessVars, deviceVars, serviceVars>>
notDevices == <<apiVars, bodyVars, watcherVars, featureVars, proofVars,
                cycleVars, accessVars, switchVars, serviceVars>>
notServices == <<apiVars, bodyVars, watcherVars, featureVars, proofVars,
                 cycleVars, accessVars, switchVars, deviceVars>>

\* ------------------------------------------------------------- exceptions
NoExc == [kind |-> "none", code |-> 0, category |-> "None"]
ApiCallError(code, category) ==
    [kind |-> "ApiCallError", code |-> code, category |-> category]
AuthenticationError(reason) ==
    [kind |-> "AuthenticationError", code |-> 0, category |-> reason]
OtherError(name) == [kind |-> "Exception", code |-> 0, category |-> name]

RequestError == ApiCallError(APICALL_ERRCODE_REQUEST, APICALL_ERRCAT_REQUEST)

\* ------------------------------------------------------------------ locks
FreeLock == [owner |-> 0, waiters |-> <<>>]

SeqRange(q) == {q[i] : i \in 1 .. Len(q)}

\* asyncio.Lock.acquire: taken at once when free and nobody waits, else the
\* caller queues (FIFO).
Acquire(lock, t) ==
    IF lock.owner = 0 /\ lock.waiters = <<>>
    THEN [lock EXCEPT !.owner = t]
    ELSE [lock EXCEPT !.waiters = Append(@, t)]

\* asyncio.Lock.release: the first waiter is woken and is the next holder.
Release(lock) ==
    IF lock.waiters = <<>>
    THEN [lock EXCEPT !.owner = 0]
    ELSE [owner |-> Head(lock.waiters), waiters |-> Tail(lock.waiters)]

Holds(lock, t) == lock.owner = t /\ t \notin SeqRange(lock.waiters)

\* --------------------------------------------------------- response bodies
CsrfPair(k) == [csrf_param |-> k, csrf_token |-> k]

Has(data, key) == key \in DOMAIN data

\* Mutant: the errcode branch is tried before the err branch.
HandleErrorDict_ErrcodeFirst(data) ==
    IF data = None THEN NoExc
    ELSE IF Has(data, "errcode") /\ data.errcode # 0
    THEN ApiCallError(data.errcode,
                      IF Has(data, "csrf") /\ data.csrf = "Menu.csrf_err"
                      THEN APICALL_ERRCAT_CSRF ELSE "None")
    ELSE IF Has(data, "err") /\ data.err # 0
    THEN ApiCallError(data.err,
                      IF Has(data, "errorCategory") THEN data.errorCategory
                      ELSE "unknown")
    ELSE NoExc

\* _handle_error_dict: the exception the body makes it raise, or NoExc.
HandleErrorDict(data) ==
    IF data = None THEN NoExc
    ELSE IF Has(data, "err") /\ data.err # 0
    THEN ApiCallError(data.err,
                      IF Has(data, "errorCategory") THEN data.errorCategory
                      ELSE "unknown")
    ELSE IF Has(data, "errcode") /\ data.errcode # 0
    THEN ApiCallError(data.errcode,
                      IF Has(data, "csrf") /\ data.csrf = "Menu.csrf_err"
                      THEN APICALL_ERRCAT_CSRF ELSE "None")
    ELSE NoExc

\* _handle_csrf_dict: the active CSRF pair after the body has been processed.
HandleCsrfDict(csrf, data) ==
    IF data # None /\ Has(data, "csrf_param") /\ Has(data, "csrf_token")
    THEN [csrf_param |-> data.csrf_param, csrf_token |-> data.csrf_token]
    ELSE csrf

\* _check_authorized: the default authorization predicate.
CheckAuthorized(response, result) == response.status # 404

\* Mutant: handle_auth_exception without its "except Exception" branch.
HandleAuthException_ApiOnly(ex) ==
    IF ex.kind = "ApiCallError"
    THEN IF ex.category = APICALL_ERRCAT_CREDENTIALS
         THEN AuthenticationError(AUTH_FAILURE_CREDENTIALS)
         ELSE IF ex.category = APICALL_ERRCAT_CSRF
         THEN AuthenticationError(AUTH_FAILURE_CSRF)
         ELSE IF ex.category = APICALL_ERRCAT_TOO_MANY_USERS
         THEN AuthenticationError(AUTH_FAILURE_TOO_MANY_USERS)
         ELSE AuthenticationError(AUTH_FAILURE_GENERAL)
    ELSE ex

\* Mutant: handle_auth_exception without the too-many-users branch.
HandleAuthException_NoTooMany(ex) ==
    IF ex.kind = "ApiCallError"
    THEN IF ex.category = APICALL_ERRCAT_CREDENTIALS
         THEN AuthenticationError(AUTH_FAILURE_CREDENTIALS)
         ELSE IF ex.category = APICALL_ERRCAT_CSRF
         THEN AuthenticationError(AUTH_FAILURE_CSRF)
         ELSE AuthenticationError(AUTH_FAILURE_GENERAL)
    ELSE IF ex.kind = "AuthenticationError" THEN ex
    ELSE AuthenticationError(AUTH_FAILURE_GENERAL)

\* Mutant: authenticate() without handle_auth_exception.
HandleAuthException_Unwrapped(ex) == ex

\* handle_auth_exception: what authenticate() raises for an exception of its body.
HandleAuthException(ex) ==
    IF ex.kind = "ApiCallError"
    THEN IF ex.category = APICALL_ERRCAT_CREDENTIALS
         THEN AuthenticationError(AUTH_FAILURE_CREDENTIALS)
         ELSE IF ex.category = APICALL_ERRCAT_CSRF
         THEN AuthenticationError(AUTH_FAILURE_CSRF)
         ELSE IF ex.category = APICALL_ERRCAT_TOO_MANY_USERS
         THEN AuthenticationError(AUTH_FAILURE_TOO_MANY_USERS)
         ELSE AuthenticationError(AUTH_FAILURE_GENERAL)
    ELSE IF ex.kind = "AuthenticationError" THEN ex
    ELSE AuthenticationError(AUTH_FAILURE_GENERAL)

\* ------------------------------------------------------------ task records
NoResult == [kind |-> "none", code |-> 0, category |-> "None", body |-> None]

\* op        the public method the task is running
\* pc        where the coroutine is suspended: "wait_call" / "wait_auth" (a lock),
\*           "auth_index" / "auth_nonce" / "auth_proof" / "logout" / "target" /
\*           "csrf_index" (the request in flight), "idle", "done"
\* ctx       why authenticate() or _try_logout() is running
\* attempt   1 in the first invocation by retry_on_csrf_error, 2 in the retried one
\* relogged  the request in flight is the repeat after a re-login
\* sent_csrf the "csrf" field of the request in flight
\* saved_exc the ApiCallError retry_on_csrf_error is handling
\* the rest is history of the current call: whether the connection was initialized
\* when it started, requests to the target path, re-logins started, CSRF refreshes
\* started, the first two responses of the target path and whether every response
\* of the target path was unauthorized, whether the logout request of the
\* re-login failed, the request of the call (other than the logout) that failed
\* at the network level, the status of the login page the CSRF refresh got (0:
\* none yet), and the latest response to a request of the login handshake in
\* progress or failed (None once the login has succeeded).
IdleTask ==
    [op |-> "none", pc |-> "idle", ctx |-> "none", attempt |-> 1,
     relogged |-> FALSE, sent_csrf |-> NoCsrfField, saved_exc |-> NoExc,
     result |-> NoResult, was_initialized |-> FALSE, n_target |-> 0, n_relogin |-> 0,
     n_refresh |-> 0, first |-> None, second |-> None, all_unauth |-> TRUE,
     logout_failed |-> FALSE, failed_at |-> "none", refresh_status |-> 0,
     login_resp |-> None]

S == [session |-> session, cookies |-> cookies, active_csrf |-> active_csrf,
      is_initialized |-> is_initialized, call_locker |-> call_locker,
      auth_locker |-> auth_locker, task |-> task, budget |-> budget,
      observed |-> observed, last_seen |-> last_seen,
      login_done |-> login_done, init_logins |-> init_logins]

Commit(s) ==
    /\ session' = s.session
    /\ cookies' = s.cookies
    /\ active_csrf' = s.active_csrf
    /\ is_initialized' = s.is_initialized
    /\ call_locker' = s.call_locker
    /\ auth_locker' = s.auth_locker
    /\ task' = s.task
    /\ budget' = s.budget
    /\ observed' = s.observed
    /\ last_seen' = s.last_seen
    /\ login_done' = s.login_done
    /\ init_logins' = s.init_logins
    /\ UNCHANGED notApi

\* History: one more request to the target path, re-login or CSRF refresh in
\* the call of an observed task.
Count(n, s, t) == IF t \in s.observed THEN n + 1 ELSE n

\* The call returns (ex = NoExc) or raises ex to its caller; what it returns or
\* raises is part of the history of an observed task.
Complete(s, t, ex, body) ==
    [s EXCEPT !.task[t].pc = "done",
              !.task[t].sent_csrf = NoCsrfField,
              !.task[t].saved_exc = NoExc,
              !.task[t].result =
                  IF t \in s.observed
                  THEN [kind |-> IF ex = NoExc THEN "ok" ELSE ex.kind,
                        code |-> ex.code, category |-> ex.category,
                        body |-> body]
                  ELSE @]

\* retry_on_csrf_error: "except ApiCallError as ex: if ex.category == APICALL_ERRCAT_CSRF".
IsCsrfError(ex) == ex.kind = "ApiCallError" /\ ex.category = APICALL_ERRCAT_CSRF

\* Mutant: every ApiCallError of the first invocation is retried.
RetryOnCsrfError_AnyError(s, t, ex) ==
    IF ex.kind = "ApiCallError" /\ s.task[t].attempt = 1
    THEN IF s.session = "open"
         THEN [s EXCEPT !.task[t].pc = "csrf_index",
                        !.task[t].saved_exc = ex,
                        !.task[t].sent_csrf = NoCsrfField,
                        !.task[t].n_refresh = Count(@, s, t)]
         ELSE Complete(s, t, RequestError, None)
    ELSE Complete(s, t, ex, None)

\* Mutant: the retried invocation is retried again on a csrf_error.
RetryOnCsrfError_Always(s, t, ex) ==
    IF ex.kind = "ApiCallError" /\ ex.category = APICALL_ERRCAT_CSRF
    THEN IF s.session = "open"
         THEN [s EXCEPT !.task[t].pc = "csrf_index",
                        !.task[t].saved_exc = ex,
                        !.task[t].sent_csrf = NoCsrfField,
                        !.task[t].n_refresh = Count(@, s, t)]
         ELSE Complete(s, t, RequestError, None)
    ELSE Complete(s, t, ex, None)

\* retry_on_csrf_error, the except branch: on a csrf_error of the first
\* invocation _init_csrf() is awaited (its GET is sent, or _get_raw raises at once
\* when there is no session); any other exception goes to the caller.
RetryOnCsrfError(s, t, ex) ==
    IF IsCsrfError(ex) /\ s.task[t].attempt = 1
    THEN IF s.session = "open"
         THEN [s EXCEPT !.task[t].pc = "csrf_index",
                        !.task[t].saved_exc = ex,
                        !.task[t].sent_csrf = NoCsrfField,
                        !.task[t].n_refresh = Count(@, s, t)]
         ELSE Complete(s, t, RequestError, None)
    ELSE Complete(s, t, ex, None)

\* lock_external_call, leaving the "async with": the call lock is released, then
\* the result or the exception reaches retry_on_csrf_error.
CallExit(s, t, ex, body) ==
    LET s1 == [s EXCEPT !.call_locker = Release(@)]
    IN  IF ex = NoExc THEN Complete(s1, t, NoExc, body)
        ELSE RetryOnCsrfError(s1, t, ex)

\* _get_raw(path) / _post_raw(path, dto): the request to the target path; the POST
\* body carries the active CSRF pair.
SendTarget(s, t) ==
    IF s.session = "open"
    THEN [s EXCEPT !.task[t].pc = "target",
                   !.task[t].sent_csrf =
                       IF s.task[t].op = "post" THEN s.active_csrf
                       ELSE NoCsrfField,
                   !.task[t].n_target = Count(@, s, t)]
    ELSE CallExit(s, t, RequestError, None)

\* authenticate() ends: lock_auth_call releases the auth lock, handle_auth_exception
\* maps the exception, and the caller goes on (_ensure_initialized sets the flag,
\* get/post repeat the request).
AuthLeave(s, t, ex) ==
    LET ctx == s.task[t].ctx
        aex == IF ex = NoExc THEN NoExc ELSE HandleAuthException(ex)
        s1 == [s EXCEPT !.auth_locker = Release(@),
                        !.login_done = @ \/ (ex = NoExc)]
    IN  IF ctx = "direct" THEN Complete(s1, t, aex, None)
        ELSE IF aex # NoExc THEN CallExit(s1, t, aex, None)
        ELSE IF ctx = "init"
        THEN SendTarget([s1 EXCEPT !.is_initialized = TRUE,
                                   !.init_logins = @ + 1], t)
        ELSE SendTarget([s1 EXCEPT !.task[t].relogged = TRUE], t)

\* authenticate() under the auth lock: _refresh_session(), then _init_csrf() sends
\* the GET of the login page.
AuthLocked(s, t) ==
    [s EXCEPT !.session = "open", !.cookies = FALSE, !.active_csrf = None,
              !.task[t].pc = "auth_index", !.task[t].sent_csrf = NoCsrfField]

\* Mutant: authenticate() without lock_auth_call.
AuthEnter_NoLock(s, t, ctx) == AuthLocked([s EXCEPT !.task[t].ctx = ctx], t)

\* Mutant: authenticate() guarded by the call lock instead of a lock of its own.
AuthEnter_CallLock(s, t, ctx) ==
    LET s1 == [s EXCEPT !.call_locker = Acquire(@, t), !.task[t].ctx = ctx]
    IN  IF Holds(s1.call_locker, t) THEN AuthLocked(s1, t)
        ELSE [s1 EXCEPT !.task[t].pc = "wait_auth"]

\* lock_auth_call around authenticate().
AuthEnter(s, t, ctx) ==
    LET s1 == [s EXCEPT !.auth_locker = Acquire(@, t), !.task[t].ctx = ctx]
    IN  IF Holds(s1.auth_locker, t) THEN AuthLocked(s1, t)
        ELSE [s1 EXCEPT !.task[t].pc = "wait_auth"]

\* Mutant: _ensure_initialized sets the flag before it awaits authenticate().
EnsureInitialized_FlagFirst(s, t) ==
    IF ~s.is_initialized
    THEN AuthEnter([s EXCEPT !.is_initialized = TRUE], t, "init")
    ELSE SendTarget(s, t)

\* Mutant: get/post without _ensure_initialized.
EnsureInitialized_Skipped(s, t) == SendTarget(s, t)

\* _ensure_initialized, then the first request of get/post.
EnsureInitialized(s, t) ==
    IF ~s.is_initialized THEN AuthEnter(s, t, "init") ELSE SendTarget(s, t)

\* What follows _try_logout(): authenticate() in get/post, closing the session in
\* disconnect() (which then leaves both locks).
AfterLogout(s, t, ctx) ==
    IF ctx = "relogin" THEN AuthEnter(s, t, "relogin")
    ELSE Complete([s EXCEPT !.session = "none",
                            !.auth_locker = Release(@),
                            !.call_locker = Release(@)], t, NoExc, None)

\* _try_logout: the logout POST with the active CSRF pair; without a session
\* _post_raw raises and the exception is swallowed.
TryLogout(s, t, ctx) ==
    IF s.session = "open"
    THEN [s EXCEPT !.task[t].pc = "logout", !.task[t].ctx = ctx,
                   !.task[t].sent_csrf = s.active_csrf]
    ELSE AfterLogout(s, t, ctx)

\* disconnect() under both locks.
DisconnectLocked(s, t) ==
    IF s.session # "none" THEN TryLogout(s, t, "disconnect")
    ELSE Complete([s EXCEPT !.auth_locker = Release(@),
                            !.call_locker = Release(@)], t, NoExc, None)

\* The body under the call lock: get/post start with _ensure_initialized,
\* disconnect takes the auth lock.
CallLocked(s, t) ==
    IF s.task[t].op = "disconnect"
    THEN LET s1 == [s EXCEPT !.auth_locker = Acquire(@, t),
                             !.task[t].ctx = "disconnect"]
         IN  IF Holds(s1.auth_locker, t) THEN DisconnectLocked(s1, t)
             ELSE [s1 EXCEPT !.task[t].pc = "wait_auth"]
    ELSE EnsureInitialized(s, t)

\* lock_external_call around get, post and disconnect.
CallEnter(s, t) ==
    LET s1 == [s EXCEPT !.call_locker = Acquire(@, t),
                        !.task[t].relogged = FALSE]
    IN  IF Holds(s1.call_locker, t) THEN CallLocked(s1, t)
        ELSE [s1 EXCEPT !.task[t].pc = "wait_call"]

\* -------------------------------------------------------------- the server
\* Every JSON object of a response has some payload.
Payload == [data |-> "payload"]

CsrfParts == {Payload} \cup {CsrfPair(k) @@ Payload : k \in Tokens}

LoginFields == [servernonce |-> "sn", salt |-> "hex", iterations |-> 1]

\* What the router may answer to the login page request.
IndexResponses ==
    {[fail |-> TRUE, status |-> 0, meta |-> None, set_cookie |-> FALSE]}
    \cup [fail : {FALSE}, status : {200, 500},
          meta : {None} \cup {CsrfPair(k) : k \in Tokens},
          set_cookie : BOOLEAN]

JsonResponses(statuses, bodies) ==
    {[fail |-> TRUE, status |-> 0, json |-> None]}
    \cup [fail : {FALSE}, status : statuses, json : bodies]

\* What the router may answer to a request to the target path.
TargetBodies ==
    {None, InvalidJson}
    \cup {e @@ c : c \in CsrfParts,
                   e \in {Payload,
                          [err |-> 1, errorCategory |-> "vendor_error"],
                          [errcode |-> 1, csrf |-> "Menu.csrf_err"]}}

TargetResponses == JsonResponses({200, 404}, TargetBodies)

\* What the router may answer to the nonce and proof requests.
LoginBodies ==
    {None, InvalidJson}
    \cup {e @@ c : c \in CsrfParts,
                   e \in {Payload, LoginFields,
                          [salt |-> "not hex"] @@ LoginFields,
                          [err |-> 1, errorCategory |-> APICALL_ERRCAT_CREDENTIALS],
                          [err |-> 1, errorCategory |-> APICALL_ERRCAT_TOO_MANY_USERS],
                          [err |-> 1, errorCategory |-> "vendor_error"],
                          [errcode |-> 1, csrf |-> "Menu.csrf_err"]}}

LoginResponses == JsonResponses({200, 500}, LoginBodies)

\* What the router may answer to the logout request.
LogoutResponses == JsonResponses({200, 500}, TargetBodies)

\* The CSRF pair a response body holds, for the history variable last_seen.
SeenIn(seen, data) ==
    IF data \notin {None, InvalidJson}
       /\ Has(data, "csrf_param") /\ Has(data, "csrf_token")
    THEN [csrf_param |-> data.csrf_param, csrf_token |-> data.csrf_token]
    ELSE seen

\* result["servernonce"], int(result["iterations"]), result["salt"] and
\* get_client_proof (bytes.fromhex of the salt): the exception they raise.
ReadChallenge(data) ==
    IF data = None THEN OtherError("TypeError")
    ELSE IF ~(Has(data, "servernonce") /\ Has(data, "iterations")
              /\ Has(data, "salt"))
    THEN OtherError("KeyError")
    ELSE IF data.salt # "hex" THEN OtherError("ValueError")
    ELSE NoExc

\* ------------------------------------------------------------------ actions
Pending == [kind |-> "pending", code |-> 0, category |-> "None"]

\* No body is being classified (specifications of the connection).
NoBody == body_data = None /\ body_ex = Pending /\ body_retry = "pending"

\* No changes watcher is followed (specifications of the connection).
NoWatcher ==
    /\ source = <<>> /\ known_items = <<>> /\ added = <<>> /\ removed = <<>>
    /\ calls = <<>> /\ looked = "no"
    /\ last_edge = [k \in 1 .. MaxKey |-> "none"]

\* What a probe of feature detection leaves in the task: the feature probed (0:
\* none yet), what the request raised, whether the data held the feature's field.
NoProbe == [feature |-> 0, ex |-> NoExc, present |-> FALSE]
\* What is_feature_available gave its caller: nothing yet, a bool, an exception.
NoAnswer == [ex |-> NoExc, value |-> "none"]
IdleFeatureTask ==
    [pc |-> "idle", asked |-> 0, next |-> 0, answer |-> NoAnswer, probe |-> NoProbe]

\* HuaweiApi.__init__: no feature detected, nobody asks.
NoFeatures ==
    /\ is_features_updated = FALSE
    /\ available_features = {}
    /\ ftask = [t \in Tasks |-> IdleFeatureTask]
    /\ fbudget = [t \in Tasks |-> 0]
    /\ probe_count = [f \in 1 .. MaxFeature |-> 0]

\* No proof is being computed (specifications of the other components).
NoProof ==
    proof_in = None /\ proof_in2 = None /\ proof_out = <<>> /\ proof_out2 = <<>>

\* HuaweiDataUpdateCoordinator.__init__: no poll cycle has run.
NoCycle ==
    /\ cycle_pc = "idle" /\ steps_run = <<>> /\ some_raised = FALSE
    /\ is_initial_update = TRUE
    /\ apis = {} /\ disconnecting = {}
    /\ cycles_left = 0

\* No access lists are being processed (specifications of the other components).
NoAccess == acl_in = None /\ acl_out = None

\* No switch is known (specifications of the other components).
NoSwitches ==
    /\ switch_states = <<>> /\ url_filters = <<>>
    /\ supported = {} /\ url_filter_switches = FALSE
    /\ url_filter_feature = FALSE
    /\ last_call = None

\* No device is known (specifications of the other components).
NoDevices ==
    /\ connected_devices = <<>> /\ dev_before = <<>> /\ dev_report = <<>>
    /\ dev_events = {} /\ dev_cycle = None

\* No config entry is set up (specifications of the other components).
NoServices ==
    /\ coordinators = {} /\ loaded_entries = {} /\ services_count = <<>>
    /\ services_registered = FALSE /\ entry_call = None

\* The connection is not used (specifications of the other components).
IdleConnection ==
    /\ session = "none"
    /\ cookies = FALSE
    /\ active_csrf = None
    /\ is_initialized = FALSE
    /\ call_locker = FreeLock
    /\ auth_locker = FreeLock
    /\ task = [t \in Tasks |-> IdleTask]
    /\ last_seen = None
    /\ login_done = FALSE
    /\ init_logins = 0
    /\ budget = [t \in Tasks |-> 0]
    /\ observed = {}

Constructed ==
    /\ NoBody
    /\ NoWatcher
    /\ NoFeatures
    /\ NoProof
    /\ NoCycle
    /\ NoAccess
    /\ NoSwitches
    /\ NoDevices
    /\ NoServices
    /\ session = "none"
    /\ cookies = FALSE
    /\ active_csrf = None
    /\ is_initialized = FALSE
    /\ call_locker = FreeLock
    /\ auth_locker = FreeLock
    /\ task = [t \in Tasks |-> IdleTask]
    /\ last_seen = None
    /\ login_done = FALSE
    /\ init_logins = 0

\* The tasks use the connection concurrently, CallsEach calls each.
Init ==
    /\ Constructed
    /\ budget = [t \in Tasks |-> CallsEach]
    /\ observed = {}

\* One task makes up to MaxCalls calls one after the other, and the responses it
\* gets are recorded.
InitCall ==
    /\ Constructed
    /\ budget = [t \in Tasks |-> IF t = Caller THEN MaxCalls ELSE 0]
    /\ observed = {Caller}

CanStart(t) == task[t].pc \in {"idle", "done"} /\ budget[t] > 0

NewCall(t, op) ==
    [S EXCEPT !.task[t] = [IdleTask EXCEPT !.op = op,
                                           !.was_initialized =
                                               is_initialized /\ t \in observed],
              !.budget[t] = @ - 1]

\* A task calls get(path).
StartGet(t) == CanStart(t) /\ Commit(CallEnter(NewCall(t, "get"), t))

\* A task calls post(path, payload).
StartPost(t) == CanStart(t) /\ Commit(CallEnter(NewCall(t, "post"), t))

\* A task calls authenticate() directly (HuaweiApi.authenticate).
StartAuthenticate(t) ==
    CanStart(t) /\ Commit(AuthEnter(NewCall(t, "authenticate"), t, "direct"))

\* A task calls disconnect().
StartDisconnect(t) ==
    CanStart(t) /\ Commit(CallEnter(NewCall(t, "disconnect"), t))

\* The call lock is handed to a waiting task.
CallLockGranted(t) ==
    /\ task[t].pc = "wait_call"
    /\ Holds(call_locker, t)
    /\ Commit(CallLocked(S, t))

\* The auth lock is handed to a waiting task.
AuthLockGranted(t) ==
    /\ task[t].pc = "wait_auth"
    /\ Holds(auth_locker, t)
    /\ Commit(IF task[t].ctx = "disconnect" THEN DisconnectLocked(S, t)
              ELSE AuthLocked(S, t))

\* The history of the call: the response to its n-th request to the target path.
Record(s, t, r) ==
    [s EXCEPT !.task[t].first = IF s.task[t].n_target = 1 THEN r ELSE @,
              !.task[t].second = IF s.task[t].n_target = 2 THEN r ELSE @,
              !.task[t].all_unauth =
                  @ /\ ~r.fail /\ ~CheckAuthorized(r, r.json),
              !.last_seen = IF r.fail THEN @ ELSE SeenIn(@, r.json)]

Observe(s, t, r) == IF t \in s.observed THEN Record(s, t, r) ELSE s

\* History: the request in flight failed at the network level (_get_raw / _post_raw
\* caught an exception of the session).
Failed(s, t, r) ==
    IF t \in s.observed /\ r.fail
    THEN [s EXCEPT !.task[t].failed_at = s.task[t].pc] ELSE s

\* The history of the connection: the CSRF pair of the body of a response to a
\* login or logout request (a body the code reads: the status is 200).
Seen(s, t, r) ==
    IF t \in s.observed /\ ~r.fail /\ r.status = 200
    THEN [s EXCEPT !.last_seen = SeenIn(@, r.json)] ELSE s

\* _handle_csrf_dict(result) on the connection.
Adopt(s, data) == [s EXCEPT !.active_csrf = HandleCsrfDict(@, data)]

\* get/post, the unauthorized branch: _try_logout(), authenticate() and the repeat.
Relogin(s, t) ==
    TryLogout([s EXCEPT !.task[t].n_relogin = Count(@, s, t)], t, "relogin")

\* get/post after the repeated request: the authorization check, then
\* _handle_csrf_dict and _handle_error_dict.
RepeatResponse(s, t, r) ==
    IF ~CheckAuthorized(r, r.json)
    THEN CallExit(s, t, ApiCallError(APICALL_ERRCODE_UNAUTHORIZED,
                                     APICALL_ERRCAT_UNAUTHORIZED), None)
    ELSE CallExit(Adopt(s, r.json), t, HandleErrorDict(r.json), r.json)

\* get, after _get_raw and _get_response_json of the first request: the
\* authorization check, then _handle_csrf_dict and _handle_error_dict.
GetResponse(s, t, r) ==
    IF ~CheckAuthorized(r, r.json) THEN Relogin(s, t)
    ELSE CallExit(Adopt(s, r.json), t, HandleErrorDict(r.json), r.json)

\* post, after _post_raw and _get_response_json of the first request:
\* _handle_csrf_dict and _handle_error_dict, then the authorization check.
PostResponse(s, t, r) ==
    LET s1 == Adopt(s, r.json)
        ex == HandleErrorDict(r.json)
    IN  IF ex # NoExc THEN CallExit(s1, t, ex, None)
        ELSE IF ~CheckAuthorized(r, r.json) THEN Relogin(s1, t)
        ELSE CallExit(s1, t, NoExc, r.json)

\* The response to the request to the target path arrives (or the request fails).
RecvTarget(t) ==
    /\ task[t].pc = "target"
    /\ \E r \in TargetResponses :
         LET s == Failed(Observe(S, t, r), t, r)
         IN  Commit(IF r.fail THEN CallExit(s, t, RequestError, None)
                    ELSE IF r.json = InvalidJson
                    THEN CallExit(s, t, OtherError("JSONDecodeError"), None)
                    ELSE IF task[t].relogged THEN RepeatResponse(s, t, r)
                    ELSE IF task[t].op = "get" THEN GetResponse(s, t, r)
                    ELSE PostResponse(s, t, r))

\* Mutant: a failed logout request ends the call with the request error.
LogoutResponse_Strict(s, t, r) ==
    IF r.fail /\ s.task[t].ctx = "relogin"
    THEN CallExit(s, t, RequestError, None)
    ELSE AfterLogout(IF ~r.fail /\ r.status = 200 /\ r.json # InvalidJson
                     THEN Adopt(s, r.json) ELSE s,
                     t, s.task[t].ctx)

\* _try_logout after its POST: a status other than 200 ends it, every exception
\* (of the request, json.loads, _handle_error_dict) is swallowed.
LogoutResponse(s, t, r) ==
    AfterLogout(IF ~r.fail /\ r.status = 200 /\ r.json # InvalidJson
                THEN Adopt(s, r.json) ELSE s,
                t, s.task[t].ctx)

\* History: the logout request failed (network error, status other than 200,
\* text that is no JSON, error object in the body).
LogoutFailed(r) ==
    \/ r.fail
    \/ r.status # 200
    \/ r.json = InvalidJson
    \/ HandleErrorDict(r.json) # NoExc

SeenLogout(s, t, r) ==
    LET s1 == Seen(s, t, r)
    IN  IF t \in s.observed
        THEN [s1 EXCEPT !.task[t].logout_failed = LogoutFailed(r)] ELSE s1

\* The response to the logout request arrives (or the request fails).
RecvLogout(t) ==
    /\ task[t].pc = "logout"
    /\ \E r \in LogoutResponses :
         Commit(LogoutResponse(SeenLogout(S, t, r), t, r))

\* Mutant: _init_csrf forgets the CSRF pair when the login page is refused.
InitCsrf_Clears(s, t, r) ==
    IF r.fail THEN [ex |-> RequestError, ok |-> FALSE, s |-> s]
    ELSE LET s1 == [s EXCEPT !.cookies = @ \/ r.set_cookie]
         IN  IF r.status # 200
             THEN [ex |-> NoExc, ok |-> FALSE, s |-> [s1 EXCEPT !.active_csrf = None]]
             ELSE IF r.meta = None
             THEN [ex |-> OtherError("AttributeError"), ok |-> FALSE, s |-> s1]
             ELSE [ex |-> NoExc, ok |-> TRUE,
                   s |-> [s1 EXCEPT !.active_csrf = r.meta,
                                    !.last_seen = IF t \in s.observed
                                                  THEN r.meta ELSE @]]

\* _init_csrf after its GET: [ex, ok, s] - the exception it raises or the value it
\* returns, and the connection afterwards (_update_csrf).
InitCsrf(s, t, r) ==
    IF r.fail THEN [ex |-> RequestError, ok |-> FALSE, s |-> s]
    ELSE LET s1 == [s EXCEPT !.cookies = @ \/ r.set_cookie]
         IN  IF r.status # 200 THEN [ex |-> NoExc, ok |-> FALSE, s |-> s1]
             ELSE IF r.meta = None
             THEN [ex |-> OtherError("AttributeError"), ok |-> FALSE, s |-> s1]
             ELSE [ex |-> NoExc, ok |-> TRUE,
                   s |-> [s1 EXCEPT !.active_csrf = r.meta,
                                    !.last_seen = IF t \in s.observed
                                                  THEN r.meta ELSE @]]

\* History: the response to a request of the login handshake.
SeenLogin(s, t, r) ==
    IF t \in s.observed THEN [s EXCEPT !.task[t].login_resp = r] ELSE s

\* authenticate(): _post_raw of the nonce or the proof with the active CSRF pair.
SendLogin(s, t, pc) ==
    IF s.session = "open"
    THEN [s EXCEPT !.task[t].pc = pc, !.task[t].sent_csrf = s.active_csrf]
    ELSE AuthLeave(s, t, RequestError)

\* authenticate() after _init_csrf().
AuthIndexResponse(s, t, r) ==
    LET i == InitCsrf(s, t, r)
    IN  IF i.ex # NoExc THEN AuthLeave(i.s, t, i.ex)
        ELSE IF ~i.ok THEN AuthLeave(i.s, t, AuthenticationError(AUTH_FAILURE_GENERAL))
        ELSE SendLogin(i.s, t, "auth_nonce")

\* The login page arrives during authenticate().
RecvAuthIndex(t) ==
    /\ task[t].pc = "auth_index"
    /\ \E r \in IndexResponses : Commit(AuthIndexResponse(SeenLogin(Failed(S, t, r), t, r), t, r))

\* authenticate() after a login POST: the status check, _get_response_json,
\* _handle_csrf_dict, _handle_error_dict; [ex, s].
LoginResponse(s, r) ==
    IF r.fail THEN [ex |-> RequestError, s |-> s]
    ELSE IF r.status # 200
    THEN [ex |-> AuthenticationError(AUTH_FAILURE_GENERAL), s |-> s]
    ELSE IF r.json = InvalidJson
    THEN [ex |-> OtherError("JSONDecodeError"), s |-> s]
    ELSE [ex |-> HandleErrorDict(r.json), s |-> Adopt(s, r.json)]

\* authenticate() after the nonce POST: the challenge is read and the proof sent.
NonceResponse(s, t, r) ==
    LET l == LoginResponse(s, r)
    IN  IF l.ex # NoExc THEN AuthLeave(l.s, t, l.ex)
        ELSE IF ReadChallenge(r.json) # NoExc
        THEN AuthLeave(l.s, t, ReadChallenge(r.json))
        ELSE SendLogin(l.s, t, "auth_proof")

\* The response to the nonce request arrives.
RecvNonce(t) ==
    /\ task[t].pc = "auth_nonce"
    /\ \E r \in LoginResponses :
         Commit(NonceResponse(SeenLogin(Failed(Seen(S, t, r), t, r), t, r), t, r))

\* authenticate() after the proof POST.
ProofResponse(s, t, r) ==
    LET l == LoginResponse(s, r) IN AuthLeave(l.s, t, l.ex)

\* The response to the proof request arrives.
RecvProof(t) ==
    /\ task[t].pc = "auth_proof"
    /\ \E r \in LoginResponses :
         Commit(ProofResponse(
                    SeenLogin(Failed(Seen(S, t, r), t, r), t,
                              IF LoginResponse(S, r).ex = NoExc THEN None ELSE r),
                    t, r))

\* Mutant: a csrf_error is answered by a full login before the retry.
CsrfIndexResponse_Login(s, t, r) ==
    LET i == InitCsrf(s, t, r)
    IN  IF i.ex # NoExc THEN Complete(i.s, t, i.ex, None)
        ELSE IF ~i.ok THEN Complete(i.s, t, s.task[t].saved_exc, None)
        ELSE AuthEnter([i.s EXCEPT !.task[t].attempt = 2,
                                   !.call_locker = Acquire(@, t)], t, "relogin")

\* retry_on_csrf_error after _init_csrf(): an exception of it goes to the caller,
\* False re-raises the csrf_error, True invokes get/post once more.
CsrfIndexResponse(s, t, r) ==
    LET i == InitCsrf(s, t, r)
    IN  IF i.ex # NoExc THEN Complete(i.s, t, i.ex, None)
        ELSE IF ~i.ok THEN Complete(i.s, t, s.task[t].saved_exc, None)
        ELSE CallEnter([i.s EXCEPT !.task[t].attempt = 2], t)

\* History: the status of the login page the CSRF refresh got.
Refreshed(s, t, r) ==
    IF t \in s.observed /\ ~r.fail
    THEN [s EXCEPT !.task[t].refresh_status = r.status] ELSE s

\* The login page arrives during the CSRF refresh of retry_on_csrf_error.
RecvCsrfIndex(t) ==
    /\ task[t].pc = "csrf_index"
    /\ \E r \in IndexResponses :
         Commit(CsrfIndexResponse(Refreshed(Failed(S, t, r), t, r), t, r))

\* A task starts a call or receives the response to its request in flight.
Run(t) ==
    \/ StartGet(t)
    \/ StartPost(t)
    \/ StartAuthenticate(t)
    \/ StartDisconnect(t)
    \/ RecvTarget(t)
    \/ RecvLogout(t)
    \/ RecvAuthIndex(t)
    \/ RecvNonce(t)
    \/ RecvProof(t)
    \/ RecvCsrfIndex(t)

\* A task that waits for a lock gets it.
Granted(t) == CallLockGranted(t) \/ AuthLockGranted(t)

Next == \E t \in Tasks : Run(t) \/ Granted(t)

\* The calls of the tasks sharing one connection.
Spec == Init /\ [][Next]_vars

\* A single caller never waits for a lock.
NextCall == Run(Caller)

\* The calls of one task, with the responses it gets recorded.
SpecCall == InitCall /\ [][NextCall]_vars

\* asyncio resumes every task that can run: a task whose lock was handed to it, and
\* a task whose HTTP request has returned (every request ends within TIMEOUT).
Resume(t) ==
    \/ Granted(t)
    \/ RecvTarget(t)
    \/ RecvLogout(t)
    \/ RecvAuthIndex(t)
    \/ RecvNonce(t)
    \/ RecvProof(t)
    \/ RecvCsrfIndex(t)

FairSpec == Spec /\ \A t \in Tasks : WF_vars(Resume(t))

\* ------------------------------------------- _handle_error_dict on its own
\* The bodies _handle_error_dict can tell apart: each of err, errorCategory,
\* errcode and csrf absent or present with one of two values.
ErrorBodies ==
    {None} \cup
    {a @@ b @@ c @@ d @@ Payload :
        a \in {Payload, [err |-> 0], [err |-> 1]},
        b \in {Payload, [errorCategory |-> APICALL_ERRCAT_CSRF],
                         [errorCategory |-> APICALL_ERRCAT_CREDENTIALS]},
        c \in {Payload, [errcode |-> 0], [errcode |-> 1]},
        d \in {Payload, [csrf |-> "Menu.csrf_err"], [csrf |-> "Menu.other"]}}

InitBody ==
    /\ session = "none"
    /\ cookies = FALSE
    /\ active_csrf = None
    /\ is_initialized = FALSE
    /\ call_locker = FreeLock
    /\ auth_locker = FreeLock
    /\ task = [t \in Tasks |-> IdleTask]
    /\ last_seen = None
    /\ login_done = FALSE
    /\ init_logins = 0
    /\ budget = [t \in Tasks |-> 0]
    /\ observed = {}
    /\ NoWatcher
    /\ NoFeatures
    /\ NoProof
    /\ NoCycle
    /\ NoAccess
    /\ NoSwitches
    /\ NoDevices
    /\ NoServices
    /\ body_data \in ErrorBodies
    /\ body_ex = Pending
    /\ body_retry = "pending"

\* self._handle_error_dict(result) is called with the body.
HandleBody ==
    /\ body_ex = Pending
    /\ body_ex' = HandleErrorDict(body_data)
    /\ UNCHANGED <<notBody, body_data, body_retry>>

\* retry_on_csrf_error decides on what the call raised.
DecideRetry ==
    /\ body_ex # Pending /\ body_retry = "pending"
    /\ body_retry' = IF IsCsrfError(body_ex) THEN "retry" ELSE "no"
    /\ UNCHANGED <<notBody, body_data, body_ex>>

NextBody == HandleBody \/ DecideRetry

\* _handle_error_dict and the decision of retry_on_csrf_error for every body.
SpecBody == InitBody /\ [][NextBody]_vars

\* ------------------------------------------------- HuaweiChangesWatcher
\* An item of a source collection: its key (_get_key), whether the watcher's
\* predicate accepts it as it is now, and whether the object is the one the source
\* collection holds for the key. A list or dict holds references: the model
\* writes the object's content wherever the object is referenced, and a change of
\* the object rewrites every reference (TouchItems, TouchEdges).
Items == [key : 1 .. MaxKey, ok : BOOLEAN, live : BOOLEAN]

\* A Python dict as the sequence of its (key, item) entries in insertion order.
DictKeys(dict) == {dict[i].key : i \in 1 .. Len(dict)}

\* dict[key] = item: replaces the item of a key the dict has, else appends.
DictSet(dict, key, item) ==
    IF key \in DictKeys(dict)
    THEN [i \in 1 .. Len(dict) |->
             IF dict[i].key = key THEN [key |-> key, item |-> item] ELSE dict[i]]
    ELSE Append(dict, [key |-> key, item |-> item])

\* dict.pop(key, None)
DictPop(dict, key) == SelectSeq(dict, LAMBDA e : e.key # key)

\* Mutant: the predicate is not applied to the items.
RECURSIVE ActualItems_NoPredicate(_)
ActualItems_NoPredicate(src) ==
    IF src = <<>> THEN <<>>
    ELSE LET rest == ActualItems_NoPredicate(SubSeq(src, 1, Len(src) - 1))
             item == src[Len(src)]
         IN  DictSet(rest, item.key, item)

\* _get_difference, the first loop: actual_items, the accepted items by key.
RECURSIVE ActualItems(_)
ActualItems(src) ==
    IF src = <<>> THEN <<>>
    ELSE LET rest == ActualItems(SubSeq(src, 1, Len(src) - 1))
             item == src[Len(src)]
         IN  IF item.ok THEN DictSet(rest, item.key, item) ELSE rest

\* Mutant: a key the memory holds is stored and reported again.
RECURSIVE AddNew_NoSkip(_, _, _)
AddNew_NoSkip(actual, n, known) ==
    IF n = 0 THEN [known |-> known, added |-> <<>>]
    ELSE LET before == AddNew_NoSkip(actual, n - 1, known)
             e == actual[n]
         IN  [known |-> DictSet(before.known, e.key, e.item),
              added |-> Append(before.added, e)]

\* _get_difference, the second loop over the first n entries of actual_items:
\* [known, added] after it.
RECURSIVE AddNew(_, _, _)
AddNew(actual, n, known) ==
    IF n = 0 THEN [known |-> known, added |-> <<>>]
    ELSE LET before == AddNew(actual, n - 1, known)
             e == actual[n]
         IN  IF e.key \in DictKeys(before.known) THEN before
             ELSE [known |-> DictSet(before.known, e.key, e.item),
                   added |-> Append(before.added, e)]

\* _get_difference, the third loop: missing_items.
MissingItems(known, actual) ==
    SelectSeq(known, LAMBDA e : e.key \notin DictKeys(actual))

\* Mutant: the missing items stay in the memory.
RECURSIVE PopMissing_Keep(_, _, _)
PopMissing_Keep(missing, n, known) == known

\* _get_difference, the last loop over the first n entries of missing_items:
\* _known_items after the pops.
RECURSIVE PopMissing(_, _, _)
PopMissing(missing, n, known) ==
    IF n = 0 THEN known
    ELSE DictPop(PopMissing(missing, n - 1, known), missing[n].key)

\* _get_difference: [added, removed, known].
GetDifference(src, known) ==
    LET actual == ActualItems(src)
        a == AddNew(actual, Len(actual), known)
        missing == MissingItems(a.known, actual)
    IN  [added |-> a.added,
         removed |-> missing,
         known |-> PopMissing(missing, Len(missing), a.known)]

\* The callback invocations of a list of edges.
Invoke(cb, edges) ==
    [i \in 1 .. Len(edges) |-> [cb |-> cb, key |-> edges[i].key]]

\* Mutant: the on_removed callbacks run first.
Invocations_RemovedFirst(d, on_added, on_removed) ==
    (IF on_removed THEN Invoke("on_removed", d.removed) ELSE <<>>)
        \o (IF on_added THEN Invoke("on_added", d.added) ELSE <<>>)

\* look_for_changes after _get_difference: the callbacks it invokes, in order,
\* when none of them raises. on_added, on_removed: the callback is supplied.
Invocations(d, on_added, on_removed) ==
    (IF on_added THEN Invoke("on_added", d.added) ELSE <<>>)
        \o (IF on_removed THEN Invoke("on_removed", d.removed) ELSE <<>>)

\* The invocations made when the fail_at-th of them raises (0: none raises): the
\* exception leaves look_for_changes.
Delivered(inv, fail_at) ==
    IF fail_at = 0 THEN inv ELSE SubSeq(inv, 1, fail_at)

\* look_for_changes has returned: its lists are gone when the poll cycle next
\* changes the source.
Returned == added' = <<>> /\ removed' = <<>> /\ calls' = <<>>

\* A list of items after the object old got the content new.
TouchItems(items, old, new) ==
    [i \in 1 .. Len(items) |-> IF items[i] = old THEN new ELSE items[i]]

\* A dict or a list of (key, item) edges after the object old got the content
\* new: the entries hold the object itself (self._known_items[key] = item).
TouchEdges(edges, old, new) ==
    [i \in 1 .. Len(edges) |->
        IF edges[i].item = old THEN [edges[i] EXCEPT !.item = new] ELSE edges[i]]

InitWatcher ==
    /\ IdleConnection
    /\ NoBody
    /\ NoFeatures
    /\ NoProof
    /\ NoCycle
    /\ NoAccess
    /\ NoSwitches
    /\ NoDevices
    /\ NoServices
    /\ NoWatcher

\* The keys of the items of a collection.
SourceKeys(src) == {src[i].key : i \in 1 .. Len(src)}

\* The poll cycle puts a new object into the collection the watcher looks at, a
\* dict by the items' key (up to MaxItems items, in iteration order).
AddItem ==
    /\ Len(source) < MaxItems
    /\ \E key \in (1 .. MaxKey) \ SourceKeys(source), ok \in BOOLEAN :
           source' = Append(source, [key |-> key, ok |-> ok, live |-> TRUE])
    /\ looked' = "no"
    /\ Returned
    /\ UNCHANGED <<notWatcher, known_items, last_edge>>

\* The poll cycle deletes an item from the collection: the object is no longer
\* the collection's.
RemoveItem ==
    /\ \E i \in 1 .. Len(source) :
           /\ source' = SubSeq(source, 1, i - 1) \o SubSeq(source, i + 1, Len(source))
           /\ known_items' =
                  TouchEdges(known_items, source[i], [source[i] EXCEPT !.live = FALSE])
    /\ looked' = "no"
    /\ Returned
    /\ UNCHANGED <<notWatcher, last_edge>>

\* The poll cycle updates an item of the collection in place (update_device_data,
\* update_info): the object stays, its content changes.
UpdateItem ==
    /\ \E i \in 1 .. Len(source) :
           LET new == [source[i] EXCEPT !.ok = ~@]
           IN  /\ source' = TouchItems(source, source[i], new)
               /\ known_items' = TouchEdges(known_items, source[i], new)
    /\ looked' = "no"
    /\ Returned
    /\ UNCHANGED <<notWatcher, last_edge>>

\* Mutant: an edge is committed to the memory when its callback has been invoked.
LookForChanges_CommitDelivered ==
    \E on_added, on_removed \in BOOLEAN :
        LET d == GetDifference(source, known_items)
            inv == Invocations(d, on_added, on_removed)
        IN  /\ added' = d.added
            /\ removed' = d.removed
            /\ \E fail_at \in 0 .. Len(inv) :
                   LET c == Delivered(inv, fail_at)
                       was(cb, k) == \E i \in 1 .. Len(c) : c[i] = [cb |-> cb, key |-> k]
                   IN  /\ calls' = c
                       /\ known_items' =
                              SelectSeq(known_items, LAMBDA e : ~was("on_removed", e.key))
                                  \o SelectSeq(d.added, LAMBDA e : was("on_added", e.key))
            /\ looked' = IF looked = "no" THEN "once" ELSE "again"
            /\ last_edge' =
                   [k \in 1 .. MaxKey |->
                       IF k \in DictKeys(d.added) THEN "added"
                       ELSE IF k \in DictKeys(d.removed) THEN "removed"
                       ELSE last_edge[k]]
            /\ UNCHANGED <<notWatcher, source>>

\* look_for_changes: _get_difference runs against the source, then the supplied
\* callbacks are invoked until one raises.
LookForChanges ==
    \E on_added, on_removed \in BOOLEAN :
        LET d == GetDifference(source, known_items)
            inv == Invocations(d, on_added, on_removed)
        IN  /\ known_items' = d.known
            /\ added' = d.added
            /\ removed' = d.removed
            /\ \E fail_at \in 0 .. Len(inv) : calls' = Delivered(inv, fail_at)
            /\ looked' = IF looked = "no" THEN "once" ELSE "again"
            /\ last_edge' =
                   [k \in 1 .. MaxKey |->
                       IF k \in DictKeys(d.added) THEN "added"
                       ELSE IF k \in DictKeys(d.removed) THEN "removed"
                       ELSE last_edge[k]]
            /\ UNCHANGED <<notWatcher, source>>

NextWatcher == AddItem \/ RemoveItem \/ UpdateItem \/ LookForChanges

\* One changes watcher over the snapshots of successive poll cycles.
SpecWatcher == InitWatcher /\ [][NextWatcher]_vars

\* ------------------------------------------------- HuaweiFeaturesDetector
\* The features in the order update() probes them.
Features == 1 .. MaxFeature

\* What the probe's self._core_api.get(url) gives: the data with or without the
\* feature's field, or an exception of get.
ProbeOutcomes ==
    {[ex |-> NoExc, present |-> TRUE], [ex |-> NoExc, present |-> FALSE]} \cup
    {[ex |-> e, present |-> FALSE] :
        e \in {ApiCallError(APICALL_ERRCODE_UNAUTHORIZED, APICALL_ERRCAT_UNAUTHORIZED),
               ApiCallError(APICALL_ERRCODE_REQUEST, APICALL_ERRCAT_REQUEST),
               AuthenticationError(AUTH_FAILURE_GENERAL)}}

ReturnedTo(b) == [ex |-> NoExc, value |-> IF b THEN "True" ELSE "False"]
RaisedTo(ex) == [ex |-> ex, value |-> "raised"]

\* unauthorized_as_false around _is_<feature>_available: what the probe returns
\* or raises.
UnauthorizedAsFalse(o) ==
    IF o.ex.kind = "ApiCallError" /\ o.ex.category = APICALL_ERRCAT_UNAUTHORIZED
    THEN ReturnedTo(FALSE)
    ELSE IF o.ex # NoExc THEN RaisedTo(o.ex)
    ELSE ReturnedTo(o.present)

\* HuaweiFeaturesDetector.is_available
IsAvailable(features, f) == f \in features

InitFeatures ==
    /\ IdleConnection
    /\ NoBody
    /\ NoWatcher
    /\ NoProof
    /\ NoCycle
    /\ NoAccess
    /\ NoSwitches
    /\ NoDevices
    /\ NoServices
    /\ is_features_updated = FALSE
    /\ available_features = {}
    /\ ftask = [t \in Tasks |-> IdleFeatureTask]
    /\ fbudget = [t \in Tasks |-> MaxAsk]
    /\ probe_count = [f \in Features |-> 0]

\* is_feature_available(feature) up to the first await: _ensure_features_updated
\* reads the flag; when it is set the call returns the memoized answer, else
\* update() starts with the first probe.
IsFeatureAvailable(t) ==
    /\ ftask[t].pc \in {"idle", "done"}
    /\ fbudget[t] > 0
    /\ fbudget' = [fbudget EXCEPT ![t] = @ - 1]
    /\ \E f \in Features :
           ftask' = [ftask EXCEPT ![t] =
               IF is_features_updated
               THEN [IdleFeatureTask EXCEPT
                        !.pc = "done", !.asked = f,
                        !.answer = ReturnedTo(IsAvailable(available_features, f))]
               ELSE [IdleFeatureTask EXCEPT !.pc = "probing", !.asked = f, !.next = 1]]
    /\ UNCHANGED <<notFeatures, is_features_updated, available_features, probe_count>>

\* update(): the probe of the next feature ends. An exception leaves update,
\* _ensure_features_updated and is_feature_available; after the last probe the
\* flag is set and the call returns.
Probe(t) ==
    /\ ftask[t].pc = "probing"
    /\ \E o \in ProbeOutcomes :
           LET f == ftask[t].next
               r == UnauthorizedAsFalse(o)
               features == IF r.value = "True" THEN available_features \cup {f}
                           ELSE available_features
               seen == [feature |-> f, ex |-> o.ex, present |-> o.present]
           IN  /\ probe_count' = [probe_count EXCEPT ![f] = @ + 1]
               /\ available_features' = features
               /\ is_features_updated' =
                      IF r.ex = NoExc /\ f = MaxFeature THEN TRUE
                      ELSE is_features_updated
               /\ ftask' = [ftask EXCEPT ![t] =
                      IF r.ex # NoExc
                      THEN [@ EXCEPT !.pc = "done", !.answer = RaisedTo(r.ex),
                                     !.probe = seen]
                      ELSE IF f = MaxFeature
                      THEN [@ EXCEPT !.pc = "done", !.probe = seen,
                                     !.answer =
                                         ReturnedTo(IsAvailable(features,
                                                                ftask[t].asked))]
                      ELSE [@ EXCEPT !.next = f + 1, !.probe = seen]]
    /\ UNCHANGED <<notFeatures, fbudget>>

NextFeatures == \E t \in Tasks : IsFeatureAvailable(t) \/ Probe(t)

\* The tasks of one connection ask for features, MaxAsk times each.
SpecFeatures == InitFeatures /\ [][NextFeatures]_vars

\* --------------------------------------------------------- get_client_proof
\* Strings are sequences of characters. NUL is the character U+0000.
NUL == "NUL"

\* The arguments get_client_proof is called with: a password, a salt of two hex
\* digits in either case, an iteration count and the two nonces.
Passwords == {<<"p">>, <<"q">>, <<"p", NUL>>}
HexDigits == {"a", "A", "1"}
Salts == {<<h, l>> : h \in HexDigits, l \in HexDigits}
Nonces == {<<"1">>, <<"2">>}
ProofInputs ==
    [password : Passwords, salt : Salts, iterations : 1 .. MaxIterations,
     first_nonce : Nonces, server_nonce : Nonces]

\* str.encode("utf-8") of these ASCII strings: one byte per character, NUL is the
\* zero byte.
Utf8(str) == [i \in 1 .. Len(str) |-> IF str[i] = NUL THEN "00" ELSE str[i]]

\* bytearray.fromhex(salt): a byte per pair of hex digits, whatever their case.
HexValue(digit) == IF digit = "A" THEN "a" ELSE digit
FromHex(hex) ==
    [i \in 1 .. (Len(hex) \div 2) |-> <<HexValue(hex[2 * i - 1]), HexValue(hex[2 * i])>>]

\* The key HMAC works with: a key shorter than the block is padded with zero
\* bytes, so zero bytes at its end make no difference.
RECURSIVE HmacKey(_)
HmacKey(key) ==
    IF key # <<>> /\ key[Len(key)] = "00"
    THEN HmacKey(SubSeq(key, 1, Len(key) - 1))
    ELSE key

\* The digests, as terms: different arguments give different digests.
Pbkdf2HmacSha256(password, salt, iterations) ==
    [fn |-> "pbkdf2_hmac", key |-> HmacKey(password), salt |-> salt,
     iterations |-> iterations]
HmacSha256(key, msg) == [fn |-> "hmac", key |-> HmacKey(key), msg |-> msg]
Sha256(msg) == [fn |-> "sha256", msg |-> msg]
\* bytes(key ^ sign ...).hex()
XorHex(key, sign) == [fn |-> "xor_hex", key |-> key, sign |-> sign]

\* Mutant: the first nonce is left out of the auth message.
GetClientProof_NoFirstNonce(password, salt, iterations, first_nonce, server_nonce) ==
    LET salted_password == Pbkdf2HmacSha256(Utf8(password), FromHex(salt), iterations)
        auth_msg == server_nonce \o <<",">> \o server_nonce
        client_key == HmacSha256(Utf8(<<"Client Key">>), salted_password)
        stored_key == Sha256(client_key)
        client_signature == HmacSha256(Utf8(auth_msg), stored_key)
    IN  XorHex(client_key, client_signature)

\* get_client_proof
GetClientProof(password, salt, iterations, first_nonce, server_nonce) ==
    LET salted_password == Pbkdf2HmacSha256(Utf8(password), FromHex(salt), iterations)
        auth_msg == first_nonce \o <<",">> \o server_nonce \o <<",">> \o server_nonce
        client_key == HmacSha256(Utf8(<<"Client Key">>), salted_password)
        stored_key == Sha256(client_key)
        client_signature == HmacSha256(Utf8(auth_msg), stored_key)
    IN  XorHex(client_key, client_signature)

ProofOf(in) ==
    GetClientProof(in.password, in.salt, in.iterations, in.first_nonce,
                   in.server_nonce)

\* The arguments that differ between two calls.
Changed(in, in2) == {f \in DOMAIN in : in[f] # in2[f]}

\* Two calls whose arguments differ in exactly one place.
InitProof ==
    /\ IdleConnection
    /\ NoBody
    /\ NoWatcher
    /\ NoFeatures
    /\ NoCycle
    /\ NoAccess
    /\ NoSwitches
    /\ NoDevices
    /\ NoServices
    /\ proof_in \in ProofInputs
    /\ proof_in2 \in {in \in ProofInputs : Cardinality(Changed(proof_in, in)) = 1}
    /\ proof_out = <<>>
    /\ proof_out2 = <<>>

\* get_client_proof is called with the first arguments (twice at most).
ComputeProof ==
    /\ Len(proof_out) < 2
    /\ proof_out' = Append(proof_out, ProofOf(proof_in))
    /\ UNCHANGED <<notProof, proof_in, proof_in2, proof_out2>>

\* get_client_proof is called with the changed arguments.
ComputeChanged ==
    /\ proof_out2 = <<>>
    /\ proof_out2' = <<ProofOf(proof_in2)>>
    /\ UNCHANGED <<notProof, proof_in, proof_in2, proof_out>>

NextProof == ComputeProof \/ ComputeChanged

\* get_client_proof on its own, for every pair of calls that differ in one
\* argument.
SpecProof == InitProof /\ [][NextProof]_vars

\* ---------------------------------- HuaweiDataUpdateCoordinator.async_update
\* The update steps of async_update, in the order it awaits them.
UpdateSteps ==
    <<"_update_repeater_state", "_update_zones", "_update_wlan_filter_info",
      "_update_connected_devices", "_update_apis", "_update_router_infos",
      "_update_wan_info", "_update_url_filter_info", "_update_port_mappings",
      "_update_time_control", "_update_switches", "_update_selects">>

\* What the body of an update step may raise.
StepErrors ==
    {ApiCallError(APICALL_ERRCODE_REQUEST, APICALL_ERRCAT_REQUEST),
     AuthenticationError(AUTH_FAILURE_GENERAL)}

\* Mutant: the exception of a step is raised again.
SuppressUpdateException_Reraise(ex) == ex

\* suppress_update_exception: what leaves the decorated step when its body
\* raised ex (an Exception is logged, nothing is raised).
SuppressUpdateException(ex) == NoExc

InitCycle ==
    /\ IdleConnection
    /\ NoBody
    /\ NoFeatures
    /\ NoProof
    /\ NoWatcher
    /\ NoAccess
    /\ NoSwitches
    /\ NoDevices
    /\ NoServices
    /\ cycle_pc = "idle" /\ steps_run = <<>> /\ some_raised = FALSE
    /\ is_initial_update = TRUE
    /\ apis = {} /\ disconnecting = {}
    /\ cycles_left = MaxCycles

\* async_update is called.
StartUpdate ==
    /\ cycle_pc \in {"idle", "done"}
    /\ cycles_left > 0
    /\ cycles_left' = cycles_left - 1
    /\ cycle_pc' = "running"
    /\ steps_run' = <<>>
    /\ some_raised' = FALSE
    /\ UNCHANGED <<notCycle, watcherVars, is_initial_update, apis, disconnecting>>

\* The step async_update awaits next.
NextStepIs(step) ==
    /\ cycle_pc = "running"
    /\ Len(steps_run) < Len(UpdateSteps)
    /\ UpdateSteps[Len(steps_run) + 1] = step

\* A step has ended, its body having raised ex (NoExc: nothing). What leaves the
\* decorated step leaves async_update; else async_update awaits the next step,
\* and after the last one clears the flag and returns.
StepEnded(step, ex) ==
    /\ steps_run' = Append(steps_run, step)
    /\ some_raised' = (some_raised \/ ex # NoExc)
    /\ IF SuppressUpdateException(ex) # NoExc
       THEN cycle_pc' = "raised" /\ UNCHANGED is_initial_update
       ELSE IF Len(steps_run) + 1 = Len(UpdateSteps)
       THEN cycle_pc' = "done" /\ is_initial_update' = FALSE
       ELSE UNCHANGED <<cycle_pc, is_initial_update>>

\* A step that touches neither the connected devices nor the connections.
UpdateStep ==
    \E step \in SeqRange(UpdateSteps) \ {"_update_connected_devices", "_update_apis"} :
        /\ NextStepIs(step)
        /\ \E ex \in StepErrors \cup {NoExc} : StepEnded(step, ex)
        /\ UNCHANGED <<notCycle, watcherVars, apis, disconnecting, cycles_left>>

\* What the router reports of a device in one poll: nothing, an active router,
\* or something else (inactive, or not a router).
Reports == [1 .. MaxKey -> {"absent", "router", "other"}]

\* The devices of self._connected_devices after the loop over devices_data: a
\* known device is updated in place, a new one is appended (keys k and up).
RECURSIVE AppendNew(_, _, _)
AppendNew(src, k, report) ==
    IF k > MaxKey THEN src
    ELSE AppendNew(
             IF k \in SourceKeys(src) \/ report[k] = "absent" THEN src
             ELSE Append(src, [key |-> k, ok |-> report[k] = "router", live |-> TRUE]),
             k + 1, report)

UpdateDeviceData(item, report) ==
    IF report[item.key] = "absent" THEN item
    ELSE [item EXCEPT !.ok = report[item.key] = "router"]

\* _update_connected_devices: it fails before the loop, or brings every reported
\* device up to date. The memory of the routers watcher holds the same objects.
UpdateConnectedDevices ==
    /\ NextStepIs("_update_connected_devices")
    /\ \/ /\ \E ex \in StepErrors : StepEnded("_update_connected_devices", ex)
          /\ UNCHANGED <<source, known_items>>
       \/ /\ StepEnded("_update_connected_devices", NoExc)
          /\ \E report \in Reports :
                 /\ source' =
                        AppendNew([i \in 1 .. Len(source) |->
                                      UpdateDeviceData(source[i], report)], 1, report)
                 /\ known_items' =
                        [i \in 1 .. Len(known_items) |->
                            [known_items[i] EXCEPT
                                !.item = UpdateDeviceData(@, report)]]
    /\ UNCHANGED <<notCycle, added, removed, calls, looked, last_edge, apis,
                   disconnecting, cycles_left>>

\* The keys of the invocations of a callback.
KeysOf(inv, cb) == {inv[i].key : i \in {j \in 1 .. Len(inv) : inv[j].cb = cb}}

\* _update_apis: look_for_changes of the routers watcher with on_router_added
\* (a connection is made for the router) and on_router_removed (the connection
\* is taken out of self._apis and _safe_disconnect schedules its disconnect with
\* hass.async_create_task). A callback changes the map and then, outside the
\* initial update, fires its event: the fail_at-th callback raises there (0: none
\* raises) and the exception leaves look_for_changes.
UpdateApis ==
    /\ NextStepIs("_update_apis")
    /\ LET d == GetDifference(source, known_items)
           inv == Invocations(d, TRUE, TRUE)
       IN  \E fail_at \in 0 .. (IF is_initial_update THEN 0 ELSE Len(inv)) :
               LET ran == Delivered(inv, fail_at)
                   made == KeysOf(ran, "on_added")
                   gone == KeysOf(ran, "on_removed")
               IN  /\ known_items' = d.known
                   /\ apis' = (apis \cup made) \ gone
                   /\ disconnecting' = disconnecting \cup (gone \cap (apis \cup made))
                   /\ StepEnded("_update_apis",
                                IF fail_at = 0 THEN NoExc ELSE OtherError("callback"))
    /\ UNCHANGED <<notCycle, source, added, removed, calls, looked, last_edge,
                   cycles_left>>

\* The event loop runs a scheduled disconnect task to its end.
DisconnectTask ==
    /\ \E r \in disconnecting : disconnecting' = disconnecting \ {r}
    /\ UNCHANGED <<notCycle, watcherVars, cycle_pc, steps_run, some_raised,
                   is_initial_update, apis, cycles_left>>

NextCycle ==
    StartUpdate \/ UpdateStep \/ UpdateConnectedDevices \/ UpdateApis
        \/ DisconnectTask

\* The poll cycles of one coordinator.
SpecCycle == InitCycle /\ [][NextCycle]_vars

\* ------------------------------------------- HuaweiApi._process_access_lists
Macs == 1 .. MaxMac

\* An entry of an access list as the router gives it, and the entry that
\* get_access_list_item() makes for a device.
ListedItem(mac) == [MACAddress |-> mac, HostName |-> "listed"]
NewItem(mac) == [MACAddress |-> mac, HostName |-> "name"]

\* The access lists of a band: each device at most once in a list.
AccessLists ==
    {<<>>} \cup {<<ListedItem(m)>> : m \in Macs}
        \cup {<<ListedItem(p[1]), ListedItem(p[2])>> :
                  p \in {q \in Macs \X Macs : q[1] # q[2]}}

\* The first index of the device in a list, 0 for Python's None.
IndexOf(list, device_mac) ==
    IF \E i \in 1 .. Len(list) : list[i].MACAddress = device_mac
    THEN CHOOSE i \in 1 .. Len(list) :
             /\ list[i].MACAddress = device_mac
             /\ \A j \in 1 .. (i - 1) : list[j].MACAddress # device_mac
    ELSE 0

\* del list[index] / list.pop(index)
Del(list, index) == SubSeq(list, 1, index - 1) \o SubSeq(list, index + 1, Len(list))

Result(need_action, whitelist, blacklist) ==
    [need_action |-> need_action, whitelist |-> whitelist, blacklist |-> blacklist]

\* _process_access_lists on the lists of one band: (need_action, whitelist,
\* blacklist).
ProcessAccessLists(whitelist, blacklist, filter_mode, filter_action, device_mac) ==
    LET whitelist_index == IndexOf(whitelist, device_mac)
        blacklist_index == IndexOf(blacklist, device_mac)
    IN  IF filter_action = "REMOVE"
        THEN IF filter_mode = "BLACKLIST"
             THEN IF blacklist_index = 0 THEN Result(FALSE, whitelist, blacklist)
                  ELSE Result(TRUE, whitelist, Del(blacklist, blacklist_index))
             ELSE IF whitelist_index = 0 THEN Result(FALSE, whitelist, blacklist)
                  ELSE Result(TRUE, Del(whitelist, whitelist_index), blacklist)
        ELSE IF filter_mode = "BLACKLIST"
             THEN LET popped == whitelist_index # 0
                      white == IF popped THEN Del(whitelist, whitelist_index)
                               ELSE whitelist
                      item_to_add == IF popped THEN whitelist[whitelist_index]
                                     ELSE NewItem(device_mac)
                  IN  IF blacklist_index # 0 THEN Result(FALSE, white, blacklist)
                      ELSE Result(TRUE, white, Append(blacklist, item_to_add))
             ELSE LET popped == blacklist_index # 0
                      black == IF popped THEN Del(blacklist, blacklist_index)
                               ELSE blacklist
                      item_to_add == IF popped THEN blacklist[blacklist_index]
                                     ELSE NewItem(device_mac)
                  IN  IF whitelist_index # 0 THEN Result(FALSE, whitelist, black)
                      ELSE Result(TRUE, Append(whitelist, item_to_add), black)

InitAccess ==
    /\ IdleConnection
    /\ NoBody
    /\ NoFeatures
    /\ NoProof
    /\ NoWatcher
    /\ NoCycle
    /\ NoSwitches
    /\ NoDevices
    /\ NoServices
    /\ acl_in \in [whitelist : AccessLists, blacklist : AccessLists,
                    filter_mode : {"WHITELIST", "BLACKLIST"},
                    filter_action : {"ADD", "REMOVE"}, device_mac : Macs]
    /\ acl_out = None

\* apply_wlan_filter calls _process_access_lists for a band.
ApplyWlanFilter ==
    /\ acl_out = None
    /\ acl_out' = ProcessAccessLists(acl_in.whitelist, acl_in.blacklist,
                                     acl_in.filter_mode, acl_in.filter_action,
                                     acl_in.device_mac)
    /\ UNCHANGED <<notAccess, acl_in>>

NextAccess == ApplyWlanFilter

\* _process_access_lists for every request on every pair of lists.
SpecAccess == InitAccess /\ [][NextAccess]_vars

\* ------------------------------- HuaweiDataUpdateCoordinator: the switches
\* The switches of the router (client.classes.Switch).
Switches ==
    {"nfc_switch", "wifi_80211r_switch", "wifi_twt_switch", "wlan_filter_switch",
     "guest_network_switch"}

FilterIds == 1 .. MaxFilter

\* The keys of self._switch_states: the name of a switch, for an emulated switch
\* followed by "_" and the id of its item.
SwitchKey(switch) == [switch |-> switch, switch_id |-> "None"]
UrlFilterKey(filter_id) == [switch |-> "url_filter_switch", switch_id |-> filter_id]
SwitchKeys ==
    {SwitchKey(sw) : sw \in Switches} \cup {UrlFilterKey(id) : id \in FilterIds}

\* A dict of bools: a key has "True", "False", or it is not in the dict.
Bool(b) == IF b THEN "True" ELSE "False"
NoStates == [k \in SwitchKeys |-> "absent"]

\* bool(states) of a dict: it has a key.
Truthy(states) == \E k \in SwitchKeys : states[k] # "absent"

\* calculate_url_filter_switch_states(states): the dict it writes to ("states or
\* self._switch_states") after the call.
UrlFilterStates(states) ==
    [k \in SwitchKeys |->
        IF k.switch = "url_filter_switch" /\ url_filters[k.switch_id] # "absent"
        THEN url_filters[k.switch_id] ELSE states[k]]

\* History: a call, whether it returned (ok) or raised, whether it sent a request
\* to the router, and the filter and state set_switch_state was called with.
Called(op, ok, sent, switch_id, state) ==
    [op |-> op, ok |-> ok, sent |-> sent, switch_id |-> switch_id, state |-> state]

InitSwitches ==
    /\ IdleConnection
    /\ NoBody
    /\ NoWatcher
    /\ NoFeatures
    /\ NoProof
    /\ NoCycle
    /\ NoAccess
    /\ NoDevices
    /\ NoServices
    /\ switch_states = NoStates
    /\ url_filters = [id \in FilterIds |-> "absent"]
    /\ supported \in SUBSET Switches
    /\ url_filter_switches \in BOOLEAN
    /\ url_filter_feature \in BOOLEAN
    /\ last_call = Called("none", TRUE, FALSE, "None", "absent")

\* _update_url_filter_info: without the feature it returns; else the filters the
\* router reports replace the known ones (updated in place, deleted, created), or
\* the request fails.
UpdateUrlFilterInfo ==
    /\ \E ok \in BOOLEAN :
           /\ IF url_filter_feature /\ ok
              THEN url_filters' \in [FilterIds -> {"absent", "True", "False"}]
              ELSE UNCHANGED url_filters
           /\ last_call' = Called("_update_url_filter_info", ok \/ ~url_filter_feature,
                                  url_filter_feature, "None", "absent")
    /\ UNCHANGED <<notSwitches, switch_states, supported, url_filter_switches,
                   url_filter_feature>>

\* _update_switches: new_states gets the state of every supported switch; then
\* calculate_url_filter_switch_states(new_states) writes the filters' states to
\* "states or self._switch_states", that is to the current dict when new_states
\* is still empty; then self._switch_states = new_states. It may raise before it
\* has written anything (fail = "first": a request of the switches) or after the
\* URL filters (fail = "late": the port mapping and time control switches).
UpdateSwitches ==
    /\ \E values \in [Switches -> BOOLEAN], fail \in {"none", "first", "late"} :
           LET new_states ==
                   [k \in SwitchKeys |->
                       IF k.switch \in supported THEN Bool(values[k.switch])
                       ELSE "absent"]
               on == url_filter_switches /\ url_filter_feature
               to_new == Truthy(new_states)
               new_after == IF on /\ to_new THEN UrlFilterStates(new_states)
                            ELSE new_states
               old_after == IF on /\ ~to_new THEN UrlFilterStates(switch_states)
                            ELSE switch_states
           IN  /\ switch_states' =
                      IF fail = "first" THEN switch_states
                      ELSE IF fail = "late" THEN old_after
                      ELSE new_after
               /\ last_call' = Called("_update_switches", fail = "none", TRUE, "None",
                                  "absent")
    /\ UNCHANGED <<notSwitches, url_filters, supported, url_filter_switches,
                   url_filter_feature>>

\* set_switch_state(EmulatedSwitch.URL_FILTER, state, switch_id=filter_id) for a
\* known filter: nothing is done when the item has the state; else the item gets
\* it (set_enabled), apply_url_filter_info posts the item, and when that has
\* returned the state is stored in self._switch_states.
SetSwitchState ==
    /\ \E filter_id \in FilterIds, state \in BOOLEAN, ok \in BOOLEAN :
           /\ url_filters[filter_id] # "absent"
           /\ IF url_filters[filter_id] = Bool(state)
              THEN /\ UNCHANGED <<url_filters, switch_states>>
                   /\ last_call' = Called("set_switch_state", TRUE, FALSE, filter_id,
                                          Bool(state))
              ELSE /\ url_filters' = [url_filters EXCEPT ![filter_id] = Bool(state)]
                   /\ switch_states' =
                          IF ok THEN [switch_states EXCEPT
                                         ![UrlFilterKey(filter_id)] = Bool(state)]
                          ELSE switch_states
                   /\ last_call' = Called("set_switch_state", ok, TRUE, filter_id,
                                          Bool(state))
    /\ UNCHANGED <<notSwitches, supported, url_filter_switches, url_filter_feature>>

NextSwitches == UpdateUrlFilterInfo \/ UpdateSwitches \/ SetSwitchState

\* The switch states of one coordinator over its polls and the users' requests.
SpecSwitches == InitSwitches /\ [][NextSwitches]_vars

\* --------------- HuaweiDataUpdateCoordinator._update_connected_devices: events
\* A device event.
DeviceEvent(type, mac) == [type |-> type, mac |-> mac]

\* What get_known_devices reports of a device: nothing, or its is_active.
DeviceReports == [Macs -> {"absent", "active", "inactive"}]

\* The events the loop over devices_data fires for one reported device: a device
\* that is not in self._connected_devices is created with the reported is_active
\* and, outside the initial update, fires device_connected; then a change of
\* is_active fires device_connected or device_disconnected.
EventsOf(mac, known, reported, initial) ==
    LET is_new == known = "unknown"
        is_active == IF is_new THEN reported ELSE known
    IN  (IF is_new /\ ~initial THEN {DeviceEvent("device_connected", mac)} ELSE {})
            \cup
        (IF ~initial /\ is_active # reported
         THEN {DeviceEvent(IF reported = "active" THEN "device_connected"
                           ELSE "device_disconnected", mac)}
         ELSE {})

InitDevices ==
    /\ IdleConnection
    /\ NoBody
    /\ NoWatcher
    /\ NoFeatures
    /\ NoProof
    /\ NoCycle
    /\ NoAccess
    /\ NoSwitches
    /\ NoServices
    /\ connected_devices = [m \in Macs |-> "unknown"]
    /\ dev_before = [m \in Macs |-> "unknown"]
    /\ dev_report = [m \in Macs |-> "absent"]
    /\ dev_events = {}
    /\ dev_cycle = [initial |-> TRUE, ok |-> FALSE, polls |-> "none"]

\* A poll cycle: _update_connected_devices raises at get_known_devices, or runs
\* its loop over the reported devices (update_device_data stores the reported
\* is_active); at its end async_update clears _is_initial_update.
PollDevices ==
    /\ \E report \in DeviceReports, ok \in BOOLEAN :
           LET seen == {m \in Macs : ok /\ report[m] # "absent"}
           IN  /\ connected_devices' =
                      [m \in Macs |->
                          IF m \in seen THEN report[m] ELSE connected_devices[m]]
               /\ dev_events' =
                      UNION {EventsOf(m, connected_devices[m], report[m],
                                      is_initial_update) : m \in seen}
               /\ dev_report' = report
               /\ dev_cycle' = [initial |-> is_initial_update, ok |-> ok,
                                polls |-> IF dev_cycle.polls = "none" THEN "one"
                                          ELSE "many"]
    /\ dev_before' = connected_devices
    /\ is_initial_update' = FALSE
    /\ UNCHANGED <<apiVars, bodyVars, watcherVars, featureVars, proofVars,
                   accessVars, switchVars, serviceVars, cycle_pc, steps_run,
                   some_raised, apis, disconnecting, cycles_left>>

NextDevices == PollDevices

\* The connected devices of one coordinator over its poll cycles.
SpecDevices == InitDevices /\ [][NextDevices]_vars

\* ------------------------------ __init__.py and services.py: config entries
\* The config entries of the integration.
Entries == 1 .. MaxEntry

\* hass.data[DOMAIN].setdefault(DATA_KEY_SERVICES, 0).
CurrentCount == IF services_count = <<>> THEN 0 ELSE services_count[1]

\* A finished call of async_setup_entry or async_unload_entry.
EntryCall(op, entry, outcome) == [op |-> op, entry |-> entry, outcome |-> outcome]

InitServices ==
    /\ IdleConnection
    /\ NoBody
    /\ NoWatcher
    /\ NoFeatures
    /\ NoProof
    /\ NoCycle
    /\ NoAccess
    /\ NoSwitches
    /\ NoDevices
    /\ coordinators = {}
    /\ loaded_entries = {}
    /\ services_count = <<>>
    /\ services_registered = FALSE
    /\ entry_call = EntryCall("none", 0, "none")

\* async_setup_entry: the first refresh may raise (nothing is stored), forwarding
\* the setup to the platforms may raise (the coordinator is stored already), or
\* async_setup_services runs: it counts the instance and registers the services
\* for the first one.
SetupEntry ==
    \E entry \in Entries \ loaded_entries,
       outcome \in {"ok", "refresh_raised", "forward_raised"} :
        /\ coordinators' = IF outcome = "refresh_raised" THEN coordinators
                           ELSE coordinators \cup {entry}
        /\ IF outcome = "ok"
           THEN /\ loaded_entries' = loaded_entries \cup {entry}
                /\ services_count' = <<CurrentCount + 1>>
                /\ services_registered' =
                       IF CurrentCount + 1 > 1 THEN services_registered ELSE TRUE
           ELSE UNCHANGED <<loaded_entries, services_count, services_registered>>
        /\ entry_call' = EntryCall("setup", entry, outcome)
        /\ UNCHANGED notServices

\* async_unload_entry: only a successful platform unload pops the coordinator,
\* and async_unload_services runs in both cases: it counts the instance down and,
\* with none remaining, pops the counter and removes the services.
UnloadEntry ==
    \E entry \in loaded_entries, unload_ok \in BOOLEAN :
        /\ IF unload_ok
           THEN /\ coordinators' = coordinators \ {entry}
                /\ loaded_entries' = loaded_entries \ {entry}
           ELSE UNCHANGED <<coordinators, loaded_entries>>
        /\ IF CurrentCount - 1 > 0
           THEN /\ services_count' = <<CurrentCount - 1>>
                /\ UNCHANGED services_registered
           ELSE /\ services_count' = <<>>
                /\ services_registered' = FALSE
        /\ entry_call' = EntryCall("unload", entry,
                                   IF unload_ok THEN "ok" ELSE "unload_failed")
        /\ UNCHANGED notServices

NextServices == SetupEntry \/ UnloadEntry

\* The config entries of one Home Assistant instance.
SpecServices == InitServices /\ [][NextServices]_vars

\* ================================================================== claims
\* Shorthands over the history of a call.
Done(t) == task[t].pc = "done"
IsRequest(t) == task[t].op \in {"get", "post"}
Answered(r) == r # None /\ ~r.fail /\ r.json # InvalidJson
Unauthorized(r) == Answered(r) /\ ~CheckAuthorized(r, r.json)
Authorized(r) == Answered(r) /\ CheckAuthorized(r, r.json)
Category(r) == HandleErrorDict(r.json).category
CsrfError(r) ==
    /\ Answered(r)
    /\ HandleErrorDict(r.json).kind = "ApiCallError"
    /\ Category(r) = APICALL_ERRCAT_CSRF
VendorError(r) == Answered(r) /\ HandleErrorDict(r.json) # NoExc /\ ~CsrfError(r)
Success(r) == Authorized(r) /\ HandleErrorDict(r.json) = NoExc
ReturnedBody(t, body) == task[t].result.kind = "ok" /\ task[t].result.body = body
Raised(t, ex) ==
    /\ task[t].result.kind = ex.kind
    /\ task[t].result.code = ex.code
    /\ task[t].result.category = ex.category
UnauthorizedError ==
    ApiCallError(APICALL_ERRCODE_UNAUTHORIZED, APICALL_ERRCAT_UNAUTHORIZED)

\* C1: a finished get/post on an initialized connection whose first response was
\* unauthorized and whose second was a success has returned the second body after one re-login and two requests
\* to the target path; a finished get/post all of whose responses were
\* unauthorized (and whose re-login did not fail) has raised
\* ApiCallError(-2, "unauthorized") after exactly two requests.
C1_UnauthorizedRetry ==
    \A t \in observed :
        (Done(t) /\ IsRequest(t) /\ task[t].was_initialized) =>
            /\ (Unauthorized(task[t].first) /\ Success(task[t].second)) =>
                   /\ ReturnedBody(t, task[t].second.json)
                   /\ task[t].n_relogin = 1
                   /\ task[t].n_target = 2
            /\ (/\ task[t].n_target >= 1
                /\ task[t].all_unauth
                /\ Answered(task[t].first)
                /\ task[t].result.kind # "AuthenticationError") =>
                   /\ Raised(t, UnauthorizedError)
                   /\ task[t].n_target = 2

\* C2 as claimed: a finished get/post whose first response carried a csrf_error
\* body and whose second response was a success has returned after exactly two
\* requests to the target path and exactly one CSRF refresh.
C2_AsClaimed ==
    \A t \in observed :
        (Done(t) /\ IsRequest(t) /\ CsrfError(task[t].first)
         /\ Success(task[t].second)) =>
            /\ task[t].result.kind = "ok"
            /\ task[t].n_target = 2
            /\ task[t].n_refresh = 1

\* The step of a task that ends the CSRF refresh of retry_on_csrf_error.
RefreshStep(t) == task[t].pc = "csrf_index" /\ task'[t].pc # "csrf_index"

\* C2, amended: the same for a csrf_error body that the authorization predicate
\* accepts; and the step that ends a CSRF refresh neither empties the cookie jar
\* nor clears the CSRF pair, changes the initialized flag or sends a login request.
C2_CsrfRetry ==
    /\ [](\A t \in observed :
            (Done(t) /\ IsRequest(t) /\ CsrfError(task[t].first)
             /\ Authorized(task[t].first) /\ Success(task[t].second)) =>
                /\ ReturnedBody(t, task[t].second.json)
                /\ task[t].n_target = 2
                /\ task[t].n_refresh = 1
                /\ task[t].n_relogin = 0)
    /\ [][\A t \in Tasks :
            RefreshStep(t) =>
                /\ cookies => cookies'
                /\ active_csrf # None => active_csrf' # None
                /\ is_initialized' = is_initialized
                /\ auth_locker' = auth_locker
                /\ task'[t].pc \in {"target", "done", "wait_call"}]_vars

\* C2, witness: the caller has returned after a csrf_error, a refresh that kept
\* the cookie, and a successful second request.
C2_Witness ==
    /\ Done(Caller) /\ IsRequest(Caller)
    /\ CsrfError(task[Caller].first) /\ Authorized(task[Caller].first)
    /\ Success(task[Caller].second)
    /\ task[Caller].n_refresh = 1
    /\ task[Caller].result.kind = "ok"
    /\ cookies

\* C3 as claimed: no call performs more than one CSRF refresh or more than one
\* re-login.
C3_AsClaimed ==
    \A t \in observed : task[t].n_refresh <= 1 /\ task[t].n_relogin <= 1

\* C3, amended: a call performs at most one CSRF refresh, and at most one
\* re-login in each of its at most two invocations by retry_on_csrf_error, hence
\* at most two re-logins and four requests to the target path.
C3_BoundedRetries ==
    \A t \in observed :
        /\ task[t].n_refresh <= 1
        /\ task[t].attempt <= task[t].n_refresh + 1
        /\ task[t].n_relogin <= task[t].attempt
        /\ task[t].n_target <= 2 * task[t].attempt

\* C3, witness: a call in its retried invocation re-logs in a second time.
C3_Witness ==
    \E t \in observed :
        /\ IsRequest(t)
        /\ task[t].n_refresh = 1
        /\ task[t].n_relogin = 2
        /\ task[t].n_target = 4

\* A request of the task is in flight or it waits for the auth lock.
InCall(t) ==
    task[t].pc \in {"target", "logout", "auth_index", "auth_nonce", "auth_proof",
                    "wait_auth", "csrf_index"}

\* C4: a get/post holds the call lock from its first request until it returns or
\* raises, the CSRF refresh and the retried invocation included; two calls never
\* both have a request in flight.
C4_CallLockHeld ==
    /\ \A t \in Tasks : (IsRequest(t) /\ InCall(t)) => Holds(call_locker, t)
    /\ \A t, u \in Tasks :
           (t # u /\ IsRequest(t) /\ IsRequest(u)) => ~(InCall(t) /\ InCall(u))

\* C5: while a task holds the call lock, no step of another task changes the
\* active CSRF pair (so the holder sends the pair it read or adopted itself).
C5_OnlyHolderWrites ==
    [][\A t \in Tasks :
          (Holds(call_locker, t) /\ Holds(call_locker', t) /\ task'[t] = task[t]) =>
              active_csrf' = active_csrf]_vars

\* The task is between the session reset and the proof response of authenticate().
InHandshake(t) == task[t].pc \in {"auth_index", "auth_nonce", "auth_proof"}

\* C6: at most one task is inside the login handshake, and it holds the auth lock.
C6_OneLogin ==
    /\ \A t, u \in Tasks : (InHandshake(t) /\ InHandshake(u)) => t = u
    /\ \A t \in Tasks : InHandshake(t) => Holds(auth_locker, t)

\* C6, witness: an authenticate() started while another login is in progress
\* waits for the auth lock.
C6_Witness ==
    \E t, u \in Tasks :
        /\ t # u
        /\ InHandshake(t)
        /\ task[u].op = "authenticate" /\ task[u].pc = "wait_auth"

\* A task waits for a lock it holds itself.
SelfWait(lock, t) == lock.owner = t /\ t \in SeqRange(lock.waiters)

\* C7: every call that has started returns or raises; no task waits for a lock it
\* holds, and no task waits for the call lock while it holds the auth lock.
C7_CallsTerminate ==
    /\ [](\A t \in Tasks :
             /\ ~SelfWait(call_locker, t)
             /\ ~SelfWait(auth_locker, t)
             /\ ~(auth_locker.owner = t /\ t \in SeqRange(call_locker.waiters)))
    /\ \A t \in Tasks : (task[t].pc \notin {"idle", "done"}) ~> Done(t)

\* C7, witness: a get/post runs authenticate() while it holds the call lock and
\* another call waits for the call lock.
C7_Witness ==
    \E t, u \in Tasks :
        /\ t # u
        /\ IsRequest(t) /\ Holds(call_locker, t) /\ InHandshake(t)
        /\ task[u].pc = "wait_call"

\* C8: a request to the target path is in flight only when a login handshake has
\* completed and the connection is initialized; the initial login succeeds at
\* most once.
C8_LoginFirst ==
    /\ \A t \in Tasks :
           task[t].pc = "target" => (login_done /\ is_initialized)
    /\ init_logins <= 1

\* C8, witness: two concurrent first calls; one has run the initial login, the
\* other has sent its request without logging in.
C8_Witness ==
    \E t, u \in Tasks :
        /\ t # u
        /\ IsRequest(t) /\ IsRequest(u)
        /\ task[t].ctx = "init" /\ Done(t)
        /\ task[u].ctx = "none" /\ task[u].pc = "target"
        /\ init_logins = 1

\* The task has sent a request with a "csrf" field in this step.
SendsCsrf(t) ==
    /\ task'[t] # task[t]
    /\ task'[t].pc \in {"auth_nonce", "auth_proof", "logout", "target"}
    /\ task'[t].sent_csrf # NoCsrfField

\* C9: a request with a "csrf" field carries the pair of the latest response that
\* held one.
C9_CsrfAdopted ==
    [][\A t \in observed :
          (SendsCsrf(t) /\ last_seen' # None) =>
              task'[t].sent_csrf = last_seen']_vars

\* C10: after an unauthorized first response that carries an error object, post
\* like get has started the re-login.
C10_SameOrder ==
    \A t \in observed :
        (/\ IsRequest(t)
         /\ Unauthorized(task[t].first)
         /\ HandleErrorDict(task[t].first.json) # NoExc) =>
            task[t].n_relogin >= 1

\* The task starts its re-login (sends the logout request) in this step.
LogoutSent(t) == task[t].pc # "logout" /\ task'[t].pc = "logout" /\ task'[t].ctx = "relogin"

\* The task starts the login handshake of its re-login in this step.
ReloginStarted(t) ==
    task[t].pc # "auth_index" /\ task'[t].pc = "auth_index" /\ task'[t].ctx = "relogin"

\* The task sends the repeat of its request in this step.
RepeatSent(t) == ~task[t].relogged /\ task'[t].relogged

C12_AsClaimed ==
    \A t \in observed :
        (IsRequest(t) /\ task[t].failed_at # "none") =>
            (Done(t) /\ Raised(t, RequestError))

\* C12, amended: the call has ended with the step in which the request failed (so
\* nothing is sent again): with ApiCallError(-3, "request_error") for the request
\* to the target path and the CSRF refresh, with AuthenticationError(general) for
\* a request of the login handshake.
C12_NetworkFailure ==
    \A t \in observed :
        (IsRequest(t) /\ task[t].failed_at # "none") =>
            /\ Done(t)
            /\ task[t].failed_at \in {"target", "csrf_index"} =>
                   Raised(t, RequestError)
            /\ task[t].failed_at \in {"auth_index", "auth_nonce", "auth_proof"} =>
                   Raised(t, AuthenticationError(AUTH_FAILURE_GENERAL))

\* C12, witness: the proof request of a re-login failed at the network level.
C12_Witness ==
    \E t \in observed :
        /\ IsRequest(t) /\ task[t].was_initialized
        /\ task[t].n_relogin = 1
        /\ task[t].failed_at = "auth_proof"
        /\ Raised(t, AuthenticationError(AUTH_FAILURE_GENERAL))

\* The call has raised an ApiCallError of category csrf_error.
RaisedCsrfError(t) ==
    task[t].result.kind = "ApiCallError" /\ task[t].result.category = APICALL_ERRCAT_CSRF

\* A finished get/post whose authorized first response carried an error object of
\* a category other than csrf_error and unauthorized has raised it after one request.
VendorErrorSurfaces(t) ==
    (/\ Authorized(task[t].first) /\ VendorError(task[t].first)
     /\ Category(task[t].first) # APICALL_ERRCAT_UNAUTHORIZED) =>
        /\ Raised(t, HandleErrorDict(task[t].first.json))
        /\ task[t].n_target = 1
        /\ task[t].n_relogin = 0
        /\ task[t].n_refresh = 0

\* C13 as claimed: a vendor error surfaces after one request, and a call that has
\* raised a csrf_error has made a retried attempt.
C13_AsClaimed ==
    \A t \in observed :
        (Done(t) /\ IsRequest(t)) =>
            /\ VendorErrorSurfaces(t)
            /\ RaisedCsrfError(t) => task[t].attempt = 2

\* C13, amended: a vendor error surfaces after one request; a call that has raised
\* a csrf_error has attempted exactly one CSRF refresh, and either the login page
\* of the refresh came with a status other than 200 and no retried attempt was
\* made, or the retried attempt was made and ended with a csrf_error too.
C13_VendorErrors ==
    \A t \in observed :
        (Done(t) /\ IsRequest(t)) =>
            /\ VendorErrorSurfaces(t)
            /\ RaisedCsrfError(t) =>
                   /\ task[t].n_refresh = 1
                   /\ \/ /\ task[t].attempt = 1
                         /\ task[t].refresh_status \notin {0, 200}
                      \/ /\ task[t].attempt = 2
                         /\ task[t].refresh_status = 200
                         /\ task[t].n_target >= 2

\* C13, witness: the login page of the CSRF refresh came with status 500 and the
\* csrf_error of the only attempt has reached the caller.
C13_Witness ==
    \E t \in observed :
        /\ Done(t) /\ IsRequest(t)
        /\ RaisedCsrfError(t)
        /\ CsrfError(task[t].first)
        /\ task[t].attempt = 1 /\ task[t].n_target = 1
        /\ task[t].refresh_status = 500

\* The body has a non-zero err / errcode.
HasErr(data) == data # None /\ Has(data, "err") /\ data.err # 0
HasErrcode(data) == data # None /\ Has(data, "errcode") /\ data.errcode # 0
\* The body has csrf equal to the literal "Menu.csrf_err".
HasCsrfErr(data) == data # None /\ Has(data, "csrf") /\ data.csrf = "Menu.csrf_err"

\* C14 as claimed: a body raises iff it has err != 0 or errcode != 0; what it
\* raises has category csrf_error iff the body has errcode != 0 and csrf equal to
\* "Menu.csrf_err", and only such a body is retried.
C14_AsClaimed ==
    /\ body_ex # Pending =>
           /\ (body_ex # NoExc) <=> (HasErr(body_data) \/ HasErrcode(body_data))
           /\ IsCsrfError(body_ex) <=> (HasErrcode(body_data) /\ HasCsrfErr(body_data))
    /\ body_retry # "pending" =>
           ((body_retry = "retry") <=> (HasErrcode(body_data) /\ HasCsrfErr(body_data)))

\* C14, amended: a body raises iff it has err != 0 or errcode != 0; the category
\* is csrf_error, and the call is retried, iff the body has err != 0 and
\* errorCategory "csrf_error", or has no non-zero err, errcode != 0 and csrf equal
\* to "Menu.csrf_err".
C14_CsrfCategory ==
    LET csrf == \/ /\ HasErr(body_data)
                     /\ Has(body_data, "errorCategory")
                     /\ body_data.errorCategory = "csrf_error"
                \/ /\ ~HasErr(body_data)
                     /\ HasErrcode(body_data) /\ HasCsrfErr(body_data)
    IN  /\ body_ex # Pending =>
               /\ (body_ex # NoExc) <=> (HasErr(body_data) \/ HasErrcode(body_data))
               /\ IsCsrfError(body_ex) <=> csrf
        /\ body_retry # "pending" => ((body_retry = "retry") <=> csrf)

\* C14, witness: a body with err != 0 and errcode != 0 with "Menu.csrf_err" has
\* raised a credentials error and is not retried.
C14_Witness ==
    /\ HasErr(body_data) /\ HasErrcode(body_data) /\ HasCsrfErr(body_data)
    /\ body_ex = ApiCallError(1, APICALL_ERRCAT_CREDENTIALS)
    /\ body_retry = "no"

\* C15: the initialized flag is true once a login handshake has completed
\* successfully, whoever started it, and false as long as none has.
C15_LoginSetsFlag == login_done <=> is_initialized

\* The task leaves the login handshake that _ensure_initialized started.
InitialLoginEnds(t) ==
    /\ InHandshake(t) /\ task[t].ctx = "init" /\ IsRequest(t)
    /\ task'[t].pc \notin {"auth_index", "auth_nonce", "auth_proof"}

\* The task starts a get/post in this step.
RequestStarts(t) == budget'[t] < budget[t] /\ task'[t].op \in {"get", "post"}

\* C16: the login of a get/post on an uninitialized connection ends either
\* successfully, with the flag set and the request sent, or with the call raising
\* AuthenticationError, no request to the target path sent and the flag still
\* false; and a get/post started while the flag is false starts with the login.
C16_FailedFirstLogin ==
    [][\A t \in observed :
          /\ InitialLoginEnds(t) =>
                 \/ /\ task'[t].pc = "target"
                    /\ is_initialized' /\ login_done'
                    /\ task'[t].n_target = 1
                 \/ /\ task'[t].pc = "done"
                    /\ task'[t].result.kind = "AuthenticationError"
                    /\ task'[t].n_target = 0
                    /\ ~is_initialized'
          /\ (RequestStarts(t) /\ ~is_initialized) =>
                 /\ task'[t].pc = "auth_index" /\ task'[t].ctx = "init"
                 /\ task'[t].n_target = 0]_vars

\* C16, witness: no login has succeeded yet, and the second call of the caller
\* has run the login again and raised AuthenticationError with no request to the
\* target path sent and the flag false.
C16_Witness ==
    \E t \in observed :
        /\ Done(t) /\ IsRequest(t)
        /\ ~task[t].was_initialized /\ ~is_initialized /\ ~login_done
        /\ task[t].result.kind = "AuthenticationError"
        /\ task[t].n_target = 0
        /\ budget[t] < MaxCalls - 1

\* The response is one to the nonce or proof request, with status 200 and a JSON
\* body that carries an error object.
LoginError(r) ==
    /\ r # None /\ Has(r, "json") /\ ~r.fail /\ r.status = 200
    /\ r.json # InvalidJson /\ HandleErrorDict(r.json) # NoExc

\* The response is one to a request of the login handshake, with a status other
\* than 200.
LoginRefused(r) == r # None /\ ~r.fail /\ r.status # 200

\* The reason handle_auth_exception is claimed to give for an error category.
ReasonOf(category) ==
    IF category = APICALL_ERRCAT_CREDENTIALS THEN AUTH_FAILURE_CREDENTIALS
    ELSE IF category = APICALL_ERRCAT_CSRF THEN AUTH_FAILURE_CSRF
    ELSE IF category = APICALL_ERRCAT_TOO_MANY_USERS THEN AUTH_FAILURE_TOO_MANY_USERS
    ELSE AUTH_FAILURE_GENERAL

\* C17: a call that has ended after a nonce or proof response with status 200 and
\* an error object has raised AuthenticationError with the reason of the error's
\* category; after a login page, nonce or proof response with a status other than
\* 200 it has raised AuthenticationError(general); and the proof request is sent
\* only after a nonce response with status 200, no error object and a readable
\* challenge.
C17_AuthFailureReasons ==
    /\ [](\A t \in observed :
             Done(t) =>
                 /\ LoginError(task[t].login_resp) =>
                        Raised(t, AuthenticationError(
                                      ReasonOf(Category(task[t].login_resp))))
                 /\ LoginRefused(task[t].login_resp) =>
                        Raised(t, AuthenticationError(AUTH_FAILURE_GENERAL)))
    /\ [][\A t \in observed :
             (task[t].pc = "auth_nonce" /\ task'[t].pc = "auth_proof") =>
                 /\ ~task'[t].login_resp.fail
                 /\ task'[t].login_resp.status = 200
                 /\ task'[t].login_resp.json \notin {None, InvalidJson}
                 /\ HandleErrorDict(task'[t].login_resp.json) = NoExc
                 /\ ReadChallenge(task'[t].login_resp.json) = NoExc]_vars

\* C17, witness: a direct authenticate() has failed with too_many_users.
C17_Witness ==
    \E t \in observed :
        /\ Done(t) /\ task[t].op = "authenticate"
        /\ LoginError(task[t].login_resp)
        /\ Category(task[t].login_resp) = APICALL_ERRCAT_TOO_MANY_USERS
        /\ Raised(t, AuthenticationError(AUTH_FAILURE_TOO_MANY_USERS))

\* The step ends the call of the task with AuthenticationError(general).
EndsGeneral(t) ==
    /\ task'[t].pc = "done"
    /\ task'[t].result.kind = "AuthenticationError"
    /\ task'[t].result.category = AUTH_FAILURE_GENERAL

\* The response just received by the login handshake is unusable: the login page
\* lacks a csrf meta tag, the text of the nonce or proof response is no JSON, the
\* nonce response lacks servernonce, salt or iterations or its salt is not hex,
\* or the request failed at the network level.
Unusable(pc, r) ==
    /\ r # None
    /\ \/ r.fail
       \/ pc = "auth_index" /\ r.status = 200 /\ r.meta = None
       \/ pc # "auth_index" /\ r.status = 200 /\ r.json = InvalidJson
       \/ /\ pc = "auth_nonce" /\ r.status = 200 /\ r.json # InvalidJson
          /\ HandleErrorDict(r.json) = NoExc
          /\ ReadChallenge(r.json) # NoExc

\* C18: a direct authenticate() returns or raises AuthenticationError, nothing
\* else; and every step of a login handshake that receives an unusable response
\* ends the call with AuthenticationError(general).
C18_OnlyAuthenticationError ==
    /\ [](\A t \in observed :
             (Done(t) /\ task[t].op = "authenticate") =>
                 task[t].result.kind \in {"ok", "AuthenticationError"})
    /\ [][\A t \in observed :
             (InHandshake(t) /\ task'[t] # task[t]
              /\ Unusable(task[t].pc, task'[t].login_resp)) =>
                 EndsGeneral(t)]_vars

\* C18, witness: a direct authenticate() has ended with reason general after a
\* nonce response whose salt is not hex.
C18_Witness ==
    \E t \in observed :
        /\ Done(t) /\ task[t].op = "authenticate"
        /\ task[t].login_resp # None /\ Has(task[t].login_resp, "json")
        /\ task[t].login_resp.json \notin {None, InvalidJson}
        /\ Has(task[t].login_resp.json, "salt")
        /\ task[t].login_resp.json.salt = "not hex"
        /\ Raised(t, AuthenticationError(AUTH_FAILURE_GENERAL))

\* Some task runs the session reset of authenticate() in this step.
SessionReset ==
    \E t \in Tasks : task[t].pc # "auth_index" /\ task'[t].pc = "auth_index"

AcceptedKeys(src) == {src[i].key : i \in {j \in 1 .. Len(src) : src[j].ok}}

\* No key occurs twice in the list of edges.
NoKeyTwice(edges) ==
    \A i, j \in 1 .. Len(edges) : edges[i].key = edges[j].key => i = j

\* C20: a look_for_changes call reports as added exactly the accepted keys that
\* the memory lacks, as removed exactly the keys of the memory that are not
\* accepted keys of the source, each key once, and leaves the memory with exactly
\* the accepted keys.
C20_Difference ==
    [][LookForChanges =>
          /\ DictKeys(added') = AcceptedKeys(source) \ DictKeys(known_items)
          /\ DictKeys(removed') = DictKeys(known_items) \ AcceptedKeys(source)
          /\ NoKeyTwice(added') /\ NoKeyTwice(removed')
          /\ NoKeyTwice(known_items')
          /\ DictKeys(known_items') = AcceptedKeys(source)]_vars

\* C20, witness: one call has reported a key as added and another, still in the
\* source but no longer accepted, as removed.
C20_Witness ==
    /\ Len(added) = 1 /\ Len(removed) = 1
    /\ \E i \in 1 .. Len(source) :
           source[i].key = removed[1].key /\ ~source[i].ok
    /\ DictKeys(known_items) = {added[1].key}

\* The latest edge reported for a key is an added edge.
IsAdded(edge) == edge = "added"

\* C21: over the calls of one watcher the edges reported for a key alternate,
\* starting with added: a key is reported as added only when its latest edge is
\* not an added one, as removed only when its latest edge is an added one, never
\* both in one call and never twice in a list; and after every call the keys
\* whose latest edge is added are exactly the accepted keys of the snapshot, so a
\* key has one added edge per interval of presence and one removed edge per
\* disappearance.
C21_EdgesAlternate ==
    [][LookForChanges =>
          /\ NoKeyTwice(added') /\ NoKeyTwice(removed')
          /\ \A k \in 1 .. MaxKey :
                 /\ k \in DictKeys(added') => ~IsAdded(last_edge[k])
                 /\ k \in DictKeys(removed') => IsAdded(last_edge[k])
                 /\ ~(k \in DictKeys(added') /\ k \in DictKeys(removed'))
                 /\ IsAdded(last_edge'[k]) <=> k \in AcceptedKeys(source)]_vars

\* C21, witness: a call reports the removal of a key reported as added before,
\* and reports another key as added.
C21_Witness ==
    \E k, j \in 1 .. MaxKey :
        /\ last_edge[k] = "removed" /\ k \in DictKeys(removed)
        /\ last_edge[j] = "added" /\ j \in DictKeys(added)

\* C22: a look_for_changes call made when a call has already run on the source as
\* it is reports nothing, invokes no callback and leaves the memory as it was.
C22_Idempotent ==
    [][(LookForChanges /\ looked # "no") =>
          /\ added' = <<>> /\ removed' = <<>>
          /\ calls' = <<>>
          /\ known_items' = known_items]_vars

\* C22, witness: a second call has run on an unchanged source with an accepted
\* item, a rejected item and a memory that is not empty.
C22_Witness ==
    /\ looked = "again"
    /\ known_items # <<>>
    /\ \E i \in 1 .. Len(source) : ~source[i].ok

\* C23: an update in place of an item of the source collection leaves the items
\* held in the memory as they were when they were stored.
C23_MemoryKeepsItems ==
    [][UpdateItem => known_items' = known_items]_vars

\* C24: within one look_for_changes call no on_removed callback is invoked
\* before an on_added callback.
C24_AddedBeforeRemoved ==
    [][LookForChanges =>
          \A i, j \in 1 .. Len(calls') :
              (calls'[i].cb = "on_removed" /\ calls'[j].cb = "on_added") => j < i]_vars

\* C24, witness: a call has invoked on_added for one key and then on_removed for
\* another.
C24_Witness ==
    \E i, j \in 1 .. Len(calls) :
        calls[i].cb = "on_added" /\ calls[j].cb = "on_removed"

\* C25: over all is_feature_available calls of a connection the probe request of
\* a feature is issued at most once.
C25_ProbedOnce == \A f \in Features : probe_count[f] <= 1

\* C26: when the probe of a feature ends with ApiCallError of category
\* unauthorized, nothing is raised, the feature is not available afterwards and
\* update() goes on with the next feature; when it ends with another exception,
\* is_feature_available raises that exception.
C26_UnauthorizedSwallowed ==
    [][\A t \in Tasks :
          (ftask[t].pc = "probing" /\ ftask'[t] # ftask[t]) =>
              LET f == ftask[t].next
                  ex == ftask'[t].probe.ex
              IN  IF ex = NoExc THEN TRUE
                  ELSE IF ex.kind = "ApiCallError"
                          /\ ex.category = APICALL_ERRCAT_UNAUTHORIZED
                  THEN /\ ftask'[t].answer.value # "raised"
                       /\ ~IsAvailable(available_features', f)
                       /\ f < MaxFeature =>
                              ftask'[t].pc = "probing" /\ ftask'[t].next = f + 1
                  ELSE ftask'[t].pc = "done" /\ ftask'[t].answer = RaisedTo(ex)]_vars

\* Both calls of get_client_proof have returned.
BothProofs == proof_out # <<>> /\ proof_out2 # <<>>

Denoted(in) ==
    [in EXCEPT !.password = HmacKey(Utf8(in.password)), !.salt = FromHex(in.salt)]

C27_CycleCompletes ==
    /\ cycle_pc # "raised"
    /\ cycle_pc = "done" => steps_run = UpdateSteps /\ ~is_initial_update

\* C27, witness: a cycle in which a step raised has returned.
C27_Witness == cycle_pc = "done" /\ some_raised

\* C28: when async_update has returned, no disconnect that the cycle scheduled
\* is still to run.
C28_NothingPending == cycle_pc = "done" => disconnecting = {}

\* The number of entries of a device in a list.
CountOf(list, device_mac) ==
    Cardinality({i \in 1 .. Len(list) : list[i].MACAddress = device_mac})

\* C30: _process_access_lists leaves the lists as its table says (ADD: the device
\* once in the list of the mode and not in the other list; REMOVE: the device not
\* in the list of the mode, the other list as read), and need_action is true
\* whenever a returned list differs from the list read.
C30_Table ==
    acl_out # None =>
        LET white == acl_out.whitelist
            black == acl_out.blacklist
            mac == acl_in.device_mac
            add == acl_in.filter_action = "ADD"
            wl == acl_in.filter_mode = "WHITELIST"
        IN  /\ (add /\ wl) => CountOf(white, mac) = 1 /\ CountOf(black, mac) = 0
            /\ (add /\ ~wl) => CountOf(black, mac) = 1 /\ CountOf(white, mac) = 0
            /\ (~add /\ wl) => CountOf(white, mac) = 0 /\ black = acl_in.blacklist
            /\ (~add /\ ~wl) => CountOf(black, mac) = 0 /\ white = acl_in.whitelist
            /\ (white # acl_in.whitelist \/ black # acl_in.blacklist)
                   => acl_out.need_action

\* C31: every failure of Get or Post reaches the caller as ApiCallError or
\* AuthenticationError, whatever the server answers.
C31_TypedFailures ==
    \A t \in Tasks :
        (Done(t) /\ IsRequest(t))
            => task[t].result.kind \in {"ok", "ApiCallError", "AuthenticationError"}

\* A request of the task is in flight.
InFlight(t) ==
    task[t].pc \in {"target", "logout", "auth_index", "auth_nonce", "auth_proof",
                    "csrf_index"}

\* The step is one of a disconnect() of task t.
DisconnectStep(t) ==
    /\ task'[t].op = "disconnect"
    /\ task'[t] # task[t]
    /\ \A u \in Tasks \ {t} : task'[u] = task[u]

\* C32: while disconnect() runs (its logout is in flight) it holds both locks and
\* no get/post and no login of another task is in progress; and no step of
\* disconnect() changes the initialized flag.
C32_DisconnectAlone ==
    /\ [](\A t \in Tasks :
             (task[t].op = "disconnect" /\ task[t].pc = "logout")
                 => /\ Holds(call_locker, t) /\ Holds(auth_locker, t)
                    /\ \A u \in Tasks \ {t} : ~InFlight(u))
    /\ [][\A t \in Tasks :
              DisconnectStep(t) => is_initialized' = is_initialized]_vars

\* The latest call found an edge for the key and did not invoke its callback (an
\* earlier callback raised, or the callback was not supplied).
Undelivered(k) ==
    \/ /\ k \in DictKeys(added)
       /\ \A i \in 1 .. Len(calls) : calls[i] # [cb |-> "on_added", key |-> k]
    \/ /\ k \in DictKeys(removed)
       /\ \A i \in 1 .. Len(calls) : calls[i] # [cb |-> "on_removed", key |-> k]

\* C33: a look_for_changes call leaves the memory with exactly the accepted keys
\* of the source whichever callbacks are supplied and whichever of them raises;
\* and a key whose edge the latest call found but did not deliver is reported
\* neither as added nor as removed by the next call on the unchanged source.
C33_CommittedFirst ==
    [][LookForChanges =>
          /\ DictKeys(known_items') = AcceptedKeys(source)
          /\ \A k \in 1 .. MaxKey :
                 Undelivered(k) =>
                     k \notin DictKeys(added') \cup DictKeys(removed')]_vars

\* C33, witness: a call found two edges, its first callback raised, the edge after
\* it was not delivered and the memory holds the accepted keys all the same.
C33_Witness ==
    /\ Len(calls) = 1
    /\ Len(added) + Len(removed) = 2
    /\ \E k \in 1 .. MaxKey : Undelivered(k)
    /\ DictKeys(known_items) = AcceptedKeys(source)

\* C34: at most one task of a connection runs the probe sequence of update(); a
\* task that asks while another one probes does not start probing itself.
C34_OneProber ==
    \A t, u \in Tasks :
        (ftask[t].pc = "probing" /\ ftask[u].pc = "probing") => t = u

\* The probe of task t ends in this step with an exception that
\* is_feature_available raises.
ProbeRaises(t) ==
    /\ ftask[t].pc = "probing"
    /\ ftask'[t].pc = "done"
    /\ ftask'[t].answer.value = "raised"

\* C35: when a probe ends with an error other than unauthorized,
\* is_feature_available raises it and the detection is still marked as not done;
\* a call that finds the detection not done starts with the first probe; and no
\* step takes a feature out of the set of available features.
C35_FailedDetection ==
    [][/\ \A t \in Tasks :
              ProbeRaises(t) =>
                  /\ ftask'[t].answer = RaisedTo(ftask'[t].probe.ex)
                  /\ ~is_features_updated'
       /\ \A u \in Tasks :
              (ftask[u].pc # "probing" /\ ftask'[u].pc = "probing") =>
                  ~is_features_updated /\ ftask'[u].next = 1
       /\ available_features \subseteq available_features']_vars

\* C36: after every _update_apis step the connections of the mesh routers are
\* exactly those of the known devices that are active routers (the primary
\* router's connection, under its own key, is touched by no callback), and the
\* connections the step took out of the map are exactly those it scheduled for
\* disconnect.
C36_ConnectionMap ==
    [][UpdateApis =>
          /\ apis' = AcceptedKeys(source)
          /\ disconnecting' = disconnecting \cup (apis \ AcceptedKeys(source))]_vars

\* C37: after a successful _update_switches, with the option url_filter_switches
\* on and the URL filter feature available, the switch states hold the enabled
\* flag of every known URL filter, whichever switches the router supports.
C37_UrlFilterStates ==
    (/\ last_call.op = "_update_switches" /\ last_call.ok
     /\ url_filter_switches /\ url_filter_feature)
        => \A id \in FilterIds :
               url_filters[id] # "absent" =>
                   switch_states[UrlFilterKey(id)] = url_filters[id]

\* C38: when the request of set_switch_state for a URL filter switch fails, the
\* filter keeps its enabled flag and the switch states are unchanged; and the
\* same call made again after a failed request sends the request again.
C38_FailedSetKeepsState ==
    [][/\ (last_call'.op = "set_switch_state" /\ ~last_call'.ok)
           => url_filters' = url_filters /\ switch_states' = switch_states
       /\ (/\ last_call.op = "set_switch_state" /\ ~last_call.ok
           /\ last_call'.op = "set_switch_state"
           /\ last_call'.switch_id = last_call.switch_id
           /\ last_call'.state = last_call.state)
           => last_call'.sent]_vars

\* C39: in a poll cycle device_connected is fired for a device exactly when it is
\* reported active and was inactive or unknown before the cycle, and
\* device_disconnected exactly when it is reported inactive and was active
\* before; the first poll cycle fires no device event.
C39_DeviceEvents ==
    dev_cycle.ok =>
        /\ dev_cycle.initial => dev_events = {}
        /\ \A m \in Macs :
               /\ DeviceEvent("device_connected", m) \in dev_events
                      <=> /\ ~dev_cycle.initial
                          /\ dev_report[m] = "active"
                          /\ dev_before[m] \in {"inactive", "unknown"}
               /\ DeviceEvent("device_disconnected", m) \in dev_events
                      <=> /\ ~dev_cycle.initial
                          /\ dev_report[m] = "inactive"
                          /\ dev_before[m] = "active"

\* C40: after any setups and unloads of config entries, failed unloads included,
\* the services counter is the number of loaded config entries, and the
\* services are registered iff a config entry is loaded.
C40_ServicesCount ==
    /\ CurrentCount = Cardinality(loaded_entries)
    /\ services_registered <=> loaded_entries # {}

====
